---- MODULE Spec2Model ----
(***************************************************************************)
(* A model of the collection layer of es-next: FrozenSet, and the          *)
(* polymorphic algorithms of src/src/collections.ts, run on a JavaScript   *)
(* heap of arrays and plain objects.                                       *)
(*                                                                         *)
(* A value is a record [t, v, s]: t is the JavaScript type tag, v a number *)
(* (the number itself, 0/1 for a boolean, the heap address for "ref", the  *)
(* function number for "fn"), s the characters of a string.  A heap is a   *)
(* sequence of containers [kind, keys, vals]; the address of a container   *)
(* is its position.  A property key is a sequence of characters.           *)
(***************************************************************************)
EXTENDS Integers, Sequences, FiniteSets, TLC

VARIABLES
  heap,     \* the containers allocated so far
  root,     \* the caller's operand
  pc,       \* "ready" before the call, "done" after it
  op,       \* the call made: a record [name, ...]
  ret,      \* the value the call returned
  pre,      \* the heap as it was when the call was made
  stack,    \* flattenArray step by step: the frames of the calls in progress, [arr, depth, i]
  fsState,  \* FrozenSet: "none", "alive" (constructed) or "failed" (constructor threw)
  fsData,   \* FrozenSet: the [[SetData]] of the object under construction or alive
  fsInit,   \* FrozenSet: the iterable given to the constructor
  fsS,      \* FrozenSet: the elements the object held when its constructor returned
  fsLog,    \* FrozenSet: the calls made on the object, [name, arg, threw]
  clLog,    \* Collection: the calls made on a subclass instance, [name, arg, threw, err, val]
  now,      \* functools: the clock of the host, in milliseconds
  timeouts, \* functools: the timeouts the host holds, [id, due, cb, args]
  nextId,   \* functools: the id the next setTimeout returns
  invocations, \* functools: the invocations of func so far, [at, ncalls, args, threw, val]
  calls,    \* functools, hash: the calls made so far, [at, args, threw, val]
  isCalled, \* once: let isCalled
  onceResult, \* once: let result
  cache,    \* memoize: const cache = new Map(), a set of [key, value]
  resolver, \* memoize: the resolver argument, undefined when it is not given
  pending,  \* throttle: let pending
  timer,    \* debounce: let timer (0 while undefined, else a timeout id)
  maxTimer, \* debounce: let maxTimer (0 while undefined or null, else a timeout id)
  lastResult, \* debounce: let lastResult
  wait,     \* throttle, debounce: the wait argument
  maxWait   \* debounce: opts.maxWait, 0 when it is not given

clVars == <<clLog>>
ftVars == <<now, timeouts, nextId, invocations, calls, isCalled, onceResult, cache,
            resolver, pending, timer, maxTimer, lastResult, wait, maxWait>>

vars == <<heap, root, pc, op, ret, pre, stack, fsState, fsData, fsInit, fsS, fsLog, clVars, ftVars>>

collVars == <<heap, root, pc, op, ret, pre, stack>>
fsVars == <<fsState, fsData, fsInit, fsS, fsLog>>

--------------------------------------------------------------------------
(* Bounds *)

MaxCalls == 3      \* calls made on one FrozenSet
MaxIterLen == 2    \* length of the iterable given to the FrozenSet constructor
MaxElem == 3       \* FrozenSet elements are 1..MaxElem
MaxNodes == 5      \* nodes (arrays and leaves) of a nested array given to flatten
MaxDepth == 3      \* the largest depth given to flatten
MaxGraph == 3      \* nodes of an object graph given to the algorithms
MaxRows == 2       \* length of an array of rows given to the algorithms

--------------------------------------------------------------------------
(* Values *)

Undef == [t |-> "undef", v |-> 0, s |-> <<>>]
Null == [t |-> "null", v |-> 0, s |-> <<>>]
Num(n) == [t |-> "num", v |-> n, s |-> <<>>]
Bool(b) == [t |-> "bool", v |-> IF b THEN 1 ELSE 0, s |-> <<>>]
Str(cs) == [t |-> "str", v |-> 0, s |-> cs]
Ref(a) == [t |-> "ref", v |-> a, s |-> <<>>]
Fn(f) == [t |-> "fn", v |-> f, s |-> <<>>]

Range(q) == {q[i] : i \in DOMAIN q}

\* the functions the model knows: those the caller passes in, the methods the
\* caller's objects carry, and one method of the host
FnTrue == 1       \* True: () => true
FnFalse == 2      \* False: () => false
FnId == 3         \* (x) => x
FnKeyIsA == 4     \* (value, key) => key === 'a'
FnIsOne == 5      \* (x) => x === 1
FnSeven == 6      \* a method that answers 7
FnNull == 7       \* a method that answers null
FnThis == 8       \* a method that answers this
FnStrIndexOf == 9 \* String.prototype.indexOf of the host
FnInc == 10       \* (x) => x + 1
FnDbl == 11       \* (x) => 2 * x

RECURSIVE SeqsUpTo(_, _)
SeqsUpTo(S, n) ==
  IF n = 0 THEN {<<>>}
  ELSE LET shorter == SeqsUpTo(S, n - 1)
       IN shorter \cup {Append(q, x) : q \in {r \in shorter : Len(r) = n - 1}, x \in S}

--------------------------------------------------------------------------
(* The heap *)

IsRef(x) == x.t = "ref"
IsArrayVal(h, x) == x.t = "ref" /\ h[x.v].kind = "arr"     \* Array.isArray(x)
IsObjVal(h, x) == x.t = "ref" /\ h[x.v].kind = "obj"

Digits == <<"0", "1", "2", "3", "4", "5", "6", "7", "8", "9">>

\* String(i) for an integer i >= 0, as characters
RECURSIVE IntToKey(_)
IntToKey(i) ==
  IF i < 10 THEN <<Digits[i + 1]>> ELSE Append(IntToKey(i \div 10), Digits[(i % 10) + 1])

DigitOf(c) == CHOOSE d \in 0..9 : Digits[d + 1] = c

\* a canonical array index: "0", or digits without a leading zero
IsIndexKey(k) ==
  /\ Len(k) >= 1
  /\ \A i \in DOMAIN k : k[i] \in Range(Digits)
  /\ (Len(k) > 1 => k[1] # "0")

RECURSIVE KeyToInt(_)
KeyToInt(k) ==
  IF Len(k) = 0 THEN 0
  ELSE 10 * KeyToInt(SubSeq(k, 1, Len(k) - 1)) + DigitOf(k[Len(k)])

\* the position of key k among the keys of a container, 0 when absent
KeyPos(keys_, k) ==
  IF \E i \in DOMAIN keys_ : keys_[i] = k
  THEN CHOOSE i \in DOMAIN keys_ : keys_[i] = k
  ELSE 0

\* the names a for-in loop or Object.keys enumerates on a container, in order:
\* the indices of an array, the own keys of a plain object
OwnKeys(c) ==
  IF c.kind = "arr" THEN [i \in DOMAIN c.vals |-> IntToKey(i - 1)] ELSE c.keys

\* c[k] for a container c
GetOwn(c, k) ==
  IF c.kind = "arr"
  THEN IF IsIndexKey(k) /\ KeyToInt(k) < Len(c.vals) THEN c.vals[KeyToInt(k) + 1]
       ELSE IF k = <<"l", "e", "n", "g", "t", "h">> THEN Num(Len(c.vals))
       ELSE Undef
  ELSE IF KeyPos(c.keys, k) = 0 THEN Undef ELSE c.vals[KeyPos(c.keys, k)]

\* s[k] for a string s: its characters, its length, and the indexOf of
\* String.prototype
StrProp(cs, k) ==
  IF IsIndexKey(k) /\ KeyToInt(k) < Len(cs) THEN Str(<<cs[KeyToInt(k) + 1]>>)
  ELSE IF k = <<"l", "e", "n", "g", "t", "h">> THEN Num(Len(cs))
  ELSE IF k = <<"i", "n", "d", "e", "x", "O", "f">> THEN Fn(FnStrIndexOf)
  ELSE Undef

\* x[k] and x?.[k] where x is not null or undefined; a number or a boolean has
\* none of the keys the model uses
GetProp(h, x, k) ==
  IF IsRef(x) THEN GetOwn(h[x.v], k)
  ELSE IF x.t = "str" THEN StrProp(x.s, k)
  ELSE Undef

InsertAt(q, i, x) == SubSeq(q, 1, i - 1) \o <<x>> \o SubSeq(q, i, Len(q))

\* where a new key goes among the own keys of a plain object: index keys come
\* first in ascending order, other keys follow in insertion order
NewKeyPos(keys_, k) ==
  IF IsIndexKey(k)
  THEN 1 + Cardinality({i \in DOMAIN keys_ :
                          IsIndexKey(keys_[i]) /\ KeyToInt(keys_[i]) < KeyToInt(k)})
  ELSE Len(keys_) + 1

\* c[k] = x on a plain object c
PutOwn(c, k, x) ==
  IF KeyPos(c.keys, k) # 0
  THEN [c EXCEPT !.vals[KeyPos(c.keys, k)] = x]
  ELSE [c EXCEPT !.keys = InsertAt(c.keys, NewKeyPos(c.keys, k), k),
                 !.vals = InsertAt(c.vals, NewKeyPos(c.keys, k), x)]

EmptyObj == [kind |-> "obj", keys |-> <<>>, vals |-> <<>>]
ArrOf(vals_) == [kind |-> "arr", keys |-> <<>>, vals |-> vals_]

\* the containers reachable from a value, the value's own container included
RECURSIVE Reach(_, _)
Reach(h, x) ==
  IF ~IsRef(x) THEN {}
  ELSE {x.v} \cup UNION {Reach(h, h[x.v].vals[i]) : i \in DOMAIN h[x.v].vals}

--------------------------------------------------------------------------
(* Trees: the caller's values before they are laid out on the heap *)

Leaf(x) == [t |-> x.t, v |-> x.v, s |-> x.s, keys |-> <<>>, kids |-> <<>>]
ArrT(kids_) == [t |-> "arr", v |-> 0, s |-> <<>>, keys |-> <<>>, kids |-> kids_]
ObjT(keys_, kids_) == [t |-> "obj", v |-> 0, s |-> <<>>, keys |-> keys_, kids |-> kids_]

RECURSIVE AllocTree(_, _), AllocForest(_, _)
AllocForest(h, f) ==
  IF f = <<>> THEN [h |-> h, vals |-> <<>>]
  ELSE LET r1 == AllocTree(h, Head(f))
           r2 == AllocForest(r1.h, Tail(f))
       IN [h |-> r2.h, vals |-> <<r1.val>> \o r2.vals]
AllocTree(h, tr) ==
  IF tr.t \notin {"arr", "obj"} THEN [h |-> h, val |-> [t |-> tr.t, v |-> tr.v, s |-> tr.s]]
  ELSE LET r == AllocForest(h, tr.kids)
       IN [h |-> Append(r.h, [kind |-> tr.t, keys |-> tr.keys, vals |-> r.vals]),
           val |-> Ref(Len(r.h) + 1)]

\* the tree a value stands for: its structure without the addresses
RECURSIVE TreeOf(_, _)
TreeOf(h, x) ==
  IF ~IsRef(x) THEN Leaf(x)
  ELSE [t |-> h[x.v].kind, v |-> 0, s |-> <<>>, keys |-> h[x.v].keys,
        kids |-> [i \in DOMAIN h[x.v].vals |-> TreeOf(h, h[x.v].vals[i])]]

\* nested arrays with n nodes in all, over the given leaves
RECURSIVE ArrayTrees(_, _), ArrayForests(_, _)
ArrayForests(L, n) ==
  IF n = 0 THEN {<<>>}
  ELSE UNION {{<<tr>> \o f : tr \in ArrayTrees(L, k), f \in ArrayForests(L, n - k)} : k \in 1..n}
ArrayTrees(L, n) ==
  (IF n = 1 THEN {Leaf(x) : x \in L} ELSE {}) \cup {ArrT(f) : f \in ArrayForests(L, n - 1)}

\* the sequences of n distinct keys
RECURSIVE KeySeqs(_, _)
KeySeqs(K, n) ==
  IF n = 0 THEN {<<>>}
  ELSE {Append(q, k) : q \in KeySeqs(K, n - 1), k \in K}

Injective(q) == \A i, j \in DOMAIN q : q[i] = q[j] => i = j

\* arrays and plain objects nested in each other, with n nodes in all
RECURSIVE MixedTrees(_, _, _), MixedForests(_, _, _)
MixedForests(L, K, n) ==
  IF n = 0 THEN {<<>>}
  ELSE UNION {{<<tr>> \o f : tr \in MixedTrees(L, K, k), f \in MixedForests(L, K, n - k)} : k \in 1..n}
MixedTrees(L, K, n) ==
  (IF n = 1 THEN {Leaf(x) : x \in L} ELSE {})
    \cup {ArrT(f) : f \in MixedForests(L, K, n - 1)}
    \cup UNION {{ObjT(ks, f) : ks \in {q \in KeySeqs(K, Len(f)) : Injective(q)}} :
                 f \in MixedForests(L, K, n - 1)}

--------------------------------------------------------------------------
(* The type oracle, src/src/globals/index.ts *)

KeyCall == <<"c", "a", "l", "l">>
KeyClone == <<"c", "l", "o", "n", "e">>

\* type(value); the model has no NaN, no boxed primitives and no host objects
type(h, x) ==
  CASE x.t = "num" -> "number"
    [] x.t = "str" -> "string"
    [] x.t = "bool" -> "boolean"
    [] x.t = "undef" -> "undefined"
    [] x.t = "null" -> "null"
    [] x.t = "fn" -> "function"
    [] OTHER -> IF h[x.v].kind = "arr" THEN "array"
                ELSE IF GetOwn(h[x.v], KeyCall).t = "fn" THEN "function"
                ELSE "object"

isBool(h, x) == type(h, x) = "boolean"
isObject(h, x) == x.t \in {"ref", "null"} /\ type(h, x) = "object"
isString(h, x) == type(h, x) = "string"
isArray(h, x) == IsArrayVal(h, x)
isNumber(h, x) == type(h, x) = "number"
isNull(x) == x.t \in {"null", "undef"}
isFunc(x) == x.t = "fn"                  \* x?.constructor === Function
isEmpty(str_) == Len(str_) = 0           \* isEmpty of a string: len(x) === 0

--------------------------------------------------------------------------
(* flatten, flattenArray, flattenObj: src/src/collections.ts:287-329 *)

\* depth: boolean | number
DepthNum(n) == [k |-> "num", n |-> n]
DepthTrue == [k |-> "bool", n |-> 1]
DepthFalse == [k |-> "bool", n |-> 0]
DepthFalsy(d) == d.n = 0                                          \* !depth
DepthMinus1(d) == IF d.k = "num" THEN DepthNum(d.n - 1) ELSE d    \* typeof depth === 'number' ? depth - 1 : depth

\* a splice that takes two elements out: arr.splice(i, 2, ...items)
splice1_deletesTwo(vals_, i, items) ==
  SubSeq(vals_, 1, i) \o items \o SubSeq(vals_, i + 3, Len(vals_))

\* arr.splice(i, 1, ...items) on the elements of arr, i counted from 0
splice1(vals_, i, items) == SubSeq(vals_, 1, i) \o items \o SubSeq(vals_, i + 2, Len(vals_))

RECURSIVE flattenObj(_, _, _, _, _), flattenObjKeys(_, _, _, _, _, _)

\* a flattenObj that writes null and undefined leaves whatever keepNull says
flattenObj_storesNull(h, o, prefix, result, keepNull) ==
  LET h1 == IF result = Undef THEN Append(h, EmptyObj) ELSE h
      res == IF result = Undef THEN Ref(Len(h) + 1) ELSE result
  IN IF isString(h1, o) \/ isNumber(h1, o) \/ isBool(h1, o) \/ isNull(o)
     THEN [h |-> [h1 EXCEPT ![res.v] = PutOwn(@, prefix, o)], val |-> res]
     ELSE IF isArray(h1, o) \/ isObject(h1, o)
     THEN flattenObjKeys(h1, o, prefix, res, keepNull, 1)
     ELSE [h |-> h1, val |-> res]

\* flattenObj(o, prefix = '', result = {}, keepNull = false); result = Undef
\* stands for the omitted argument
flattenObj(h, o, prefix, result, keepNull) ==
  LET h1 == IF result = Undef THEN Append(h, EmptyObj) ELSE h
      res == IF result = Undef THEN Ref(Len(h) + 1) ELSE result
  IN IF isString(h1, o) \/ isNumber(h1, o) \/ isBool(h1, o) \/ (keepNull /\ isNull(o))
     THEN [h |-> [h1 EXCEPT ![res.v] = PutOwn(@, prefix, o)], val |-> res]
     ELSE IF isArray(h1, o) \/ isObject(h1, o)
     THEN flattenObjKeys(h1, o, prefix, res, keepNull, 1)
     ELSE [h |-> h1, val |-> res]

\* a key loop that joins a mapping's key with a dot even to the empty prefix
flattenObjKeys_alwaysDot(h, o, prefix, res, keepNull, j) ==
  LET ks == OwnKeys(h[o.v])
  IN IF j > Len(ks) THEN [h |-> h, val |-> res]
     ELSE LET i == ks[j]
              pref == IF isArray(h, o) THEN prefix \o <<"[">> \o i \o <<"]">>
                      ELSE prefix \o <<".">> \o i
              r == flattenObj(h, GetOwn(h[o.v], i), pref, res, keepNull)
          IN flattenObjKeys(r.h, o, prefix, res, keepNull, j + 1)

\* for (const i in o) { ...; flattenObj(o[i], pref, result, keepNull) } from the j-th key on
flattenObjKeys(h, o, prefix, res, keepNull, j) ==
  LET ks == OwnKeys(h[o.v])
  IN IF j > Len(ks) THEN [h |-> h, val |-> res]
     ELSE LET i == ks[j]
              pref == IF isArray(h, o) THEN prefix \o <<"[">> \o i \o <<"]">>
                      ELSE IF isEmpty(prefix) THEN i
                      ELSE prefix \o <<".">> \o i
              r == flattenObj(h, GetOwn(h[o.v], i), pref, res, keepNull)
          IN flattenObjKeys(r.h, o, prefix, res, keepNull, j + 1)

RECURSIVE flatten(_, _, _), flattenArray(_, _, _), flattenLoop(_, _, _, _)

\* a flattenArray that works on a copy of its argument
flattenArray_onCopy(h, arr, depth) ==
  IF DepthFalsy(depth) THEN [h |-> h, val |-> arr]
  ELSE flattenLoop(Append(h, h[arr.v]), Ref(Len(h) + 1), depth, 0)

flatten(h, arr, depth) ==
  IF DepthFalsy(depth) THEN [h |-> h, val |-> arr]
  ELSE IF IsArrayVal(h, arr) THEN flattenArray(h, arr, depth)
  ELSE IF isObject(h, arr) THEN flattenObj(h, arr, <<>>, Undef, FALSE)
  ELSE [h |-> h, val |-> arr]

flattenArray(h, arr, depth) ==
  IF DepthFalsy(depth) THEN [h |-> h, val |-> arr]
  ELSE flattenLoop(h, arr, depth, 0)

\* for (let i = 0; i < arr.length; i++) { ... } from position i on
flattenLoop(h, arr, depth, i) ==
  IF ~(i < Len(h[arr.v].vals)) THEN [h |-> h, val |-> arr]
  ELSE LET value == h[arr.v].vals[i + 1]
       IN IF IsArrayVal(h, value)
          THEN LET r == flatten(h, value, DepthMinus1(depth))
                   items == r.h[r.val.v].vals
               IN flattenLoop([r.h EXCEPT ![arr.v].vals = splice1(@, i, items)],
                              arr, depth, i + 1)
          ELSE flattenLoop(h, arr, depth, i + 1)

\* arr.slice(): a new array with the same elements
slice(h, arr) == [h |-> Append(h, h[arr.v]), val |-> Ref(Len(h) + 1)]

--------------------------------------------------------------------------
(* Functions the caller passes in, and methods the caller's objects carry *)

KeyA == <<"a">>
KeyB == <<"b">>
KeyZ == <<"z">>

Arg(args, i) == IF i <= Len(args) THEN args[i] ELSE Undef

\* the truthiness of a value
Truthy(x) ==
  CASE x.t = "num" -> x.v # 0
    [] x.t = "bool" -> x.v = 1
    [] x.t = "str" -> x.s # <<>>
    [] x.t \in {"undef", "null"} -> FALSE
    [] OTHER -> TRUE

\* the position of the first occurrence of needle in hay at or after start
\* (counted from 0), -1 when there is none: String.prototype.indexOf
StrIndexOf(hay, needle, start) ==
  LET from == IF start < 0 THEN 0 ELSE IF start > Len(hay) THEN Len(hay) ELSE start
      hits == {i \in from..(Len(hay) - Len(needle)) :
                 SubSeq(hay, i + 1, i + Len(needle)) = needle}
  IN IF hits = {} THEN -1 ELSE CHOOSE i \in hits : \A j \in hits : i <= j

\* f.call(this, ...args)
FnCall(this, f, args) ==
  CASE f = FnTrue -> Bool(TRUE)
    [] f = FnFalse -> Bool(FALSE)
    [] f = FnId -> Arg(args, 1)
    [] f = FnKeyIsA -> Bool(Arg(args, 2) = Str(KeyA))
    [] f = FnIsOne -> Bool(Arg(args, 1) = Num(1))
    [] f = FnSeven -> Num(7)
    [] f = FnNull -> Null
    [] f = FnThis -> this
    [] f = FnInc -> IF Arg(args, 1).t = "num" THEN Num(Arg(args, 1).v + 1) ELSE Undef
    [] f = FnDbl -> IF Arg(args, 1).t = "num" THEN Num(2 * Arg(args, 1).v) ELSE Undef
    [] f = FnStrIndexOf ->
         IF this.t = "str" /\ Arg(args, 1).t = "str"
         THEN Num(StrIndexOf(this.s, Arg(args, 1).s,
                             IF Arg(args, 2).t = "num" THEN Arg(args, 2).v ELSE 0))
         ELSE Num(-1)
    [] OTHER -> Undef

\* eq(a, b) of the operators module: the equality oracle
eq(a, b) == a = b

--------------------------------------------------------------------------
(* clone, cloneArray: src/src/collections.ts:400-424 *)

\* list(value): Array.from(value), a new array with the same elements
list(h, value) == [h |-> Append(h, ArrOf(h[value.v].vals)), val |-> Ref(Len(h) + 1)]

\* keys(object): Object.keys(object)
keys(h, object) == OwnKeys(h[object.v])

RECURSIVE clone(_, _, _), cloneArray(_, _, _), cloneItems(_, _, _, _), cloneKeys(_, _, _, _, _)

\* a cloneArray that forgets deep
cloneArray_shallow(h, arr, deep) == list(h, arr)

clone(h, obj, deep) ==
  IF isArray(h, obj) THEN cloneArray(h, obj, deep)
  ELSE IF isObject(h, obj)
  THEN IF isFunc(GetProp(h, obj, KeyClone))
       THEN [h |-> h, val |-> FnCall(obj, GetProp(h, obj, KeyClone).v, <<>>)]
       ELSE cloneKeys(Append(h, EmptyObj), obj, deep, Len(h) + 1, 1)
  ELSE [h |-> h, val |-> obj]

\* for (const key of keys(obj)) { copy[key] = ... } from the j-th key on; copy
\* is the container at address c
cloneKeys(h, obj, deep, c, j) ==
  LET ks == keys(h, obj)
  IN IF j > Len(ks) THEN [h |-> h, val |-> Ref(c)]
     ELSE LET key == ks[j]
              r == IF deep THEN clone(h, GetOwn(h[obj.v], key), deep)
                   ELSE [h |-> h, val |-> GetOwn(h[obj.v], key)]
          IN cloneKeys([r.h EXCEPT ![c] = PutOwn(@, key, r.val)], obj, deep, c, j + 1)

cloneArray(h, arr, deep) ==
  IF ~deep THEN list(h, arr)
  ELSE LET r == cloneItems(h, arr, 1, <<>>)
       IN [h |-> Append(r.h, ArrOf(r.vals)), val |-> Ref(Len(r.h) + 1)]

\* arr.map((item) => clone(item, deep)) from the j-th item on
cloneItems(h, arr, j, acc) ==
  IF j > Len(h[arr.v].vals) THEN [h |-> h, vals |-> acc]
  ELSE LET r == clone(h, h[arr.v].vals[j], TRUE)
       IN cloneItems(r.h, arr, j + 1, Append(acc, r.val))

--------------------------------------------------------------------------
(* pick, omit: src/src/collections.ts:343-373 *)

\* the property key a value turns into when it is used as one: String(x)
RECURSIVE ToKey(_, _), JoinKey(_, _, _)
ToKey(h, x) ==
  CASE x.t = "str" -> x.s
    [] x.t = "num" -> IF x.v >= 0 THEN IntToKey(x.v) ELSE <<"-">> \o IntToKey(0 - x.v)
    [] x.t = "bool" -> IF x.v = 1 THEN <<"t", "r", "u", "e">> ELSE <<"f", "a", "l", "s", "e">>
    [] x.t = "null" -> <<"n", "u", "l", "l">>
    [] x.t = "undef" -> <<"u", "n", "d", "e", "f", "i", "n", "e", "d">>
    [] x.t = "fn" -> <<"f", "u", "n", "c", "t", "i", "o", "n">>
    [] x.t = "sym" -> x.s
    [] OTHER -> IF h[x.v].kind = "arr" THEN JoinKey(h, h[x.v].vals, 1)
                ELSE <<"[", "o", "b", "j", "e", "c", "t", " ", "O", "b", "j", "e", "c", "t", "]">>
\* Array.prototype.join of the elements from the j-th on
JoinKey(h, vals_, j) ==
  IF j > Len(vals_) THEN <<>>
  ELSE (IF j > 1 THEN <<",">> ELSE <<>>)
         \o (IF isNull(vals_[j]) THEN <<>> ELSE ToKey(h, vals_[j]))
         \o JoinKey(h, vals_, j + 1)

\* the keys a for-in loop over x enumerates
ForInKeys(h, x) ==
  IF IsRef(x) THEN OwnKeys(h[x.v])
  ELSE IF x.t = "str" THEN [i \in DOMAIN x.s |-> IntToKey(i - 1)]
  ELSE <<>>

\* paths.includes(key) for an array paths and a string key
includes(h, paths, key) == \E i \in DOMAIN h[paths.v].vals : h[paths.v].vals[i] = Str(key)

RECURSIVE pickList(_, _, _, _, _), pickPred(_, _, _, _, _), omitKeys(_, _, _, _, _)

\* a pick that leaves out the keys obj does not have
RECURSIVE pickList_dropMissing(_, _, _, _, _)
pickList_dropMissing(h, obj, paths, c, j) ==
  IF j > Len(h[paths.v].vals) THEN [h |-> h, val |-> Ref(c)]
  ELSE LET key == ToKey(h, h[paths.v].vals[j])
       IN IF GetProp(h, obj, key) = Undef
          THEN pickList_dropMissing(h, obj, paths, c, j + 1)
          ELSE pickList_dropMissing([h EXCEPT ![c] = PutOwn(@, key, GetProp(h, obj, key))],
                                    obj, paths, c, j + 1)

\* for (const key of paths) { result[key] = obj[key] } from the j-th key on;
\* result is the container at address c
pickList(h, obj, paths, c, j) ==
  IF j > Len(h[paths.v].vals) THEN [h |-> h, val |-> Ref(c)]
  ELSE LET key == ToKey(h, h[paths.v].vals[j])
       IN pickList([h EXCEPT ![c] = PutOwn(@, key, GetProp(h, obj, key))], obj, paths, c, j + 1)

\* for (const key in obj) { if (paths(value, key)) result[key] = value } from the j-th key on
pickPred(h, obj, paths, c, j) ==
  LET ks == ForInKeys(h, obj)
  IN IF j > Len(ks) THEN [h |-> h, val |-> Ref(c)]
     ELSE LET key == ks[j]
              value == GetProp(h, obj, key)
          IN IF Truthy(FnCall(Undef, paths.v, <<value, Str(key)>>))
             THEN pickPred([h EXCEPT ![c] = PutOwn(@, key, value)], obj, paths, c, j + 1)
             ELSE pickPred(h, obj, paths, c, j + 1)

pick(h, obj, paths) ==
  IF isNull(obj) THEN [h |-> Append(h, EmptyObj), val |-> Ref(Len(h) + 1)]
  ELSE IF IsArrayVal(h, paths) THEN pickList(Append(h, EmptyObj), obj, paths, Len(h) + 1, 1)
  ELSE IF paths.t = "fn" THEN pickPred(Append(h, EmptyObj), obj, paths, Len(h) + 1, 1)
  ELSE [h |-> Append(h, EmptyObj), val |-> Ref(Len(h) + 1)]

\* an omit that keeps the listed keys instead of the others
RECURSIVE omitKeys_keepListed(_, _, _, _, _)
omitKeys_keepListed(h, obj, paths, c, j) ==
  LET ks == ForInKeys(h, obj)
  IN IF j > Len(ks) THEN [h |-> h, val |-> Ref(c)]
     ELSE LET key == ks[j]
              value == GetProp(h, obj, key)
          IN IF IsArrayVal(h, paths) /\ includes(h, paths, key)
             THEN omitKeys_keepListed([h EXCEPT ![c] = PutOwn(@, key, value)], obj, paths, c, j + 1)
             ELSE IF paths.t = "fn" /\ ~Truthy(FnCall(Undef, paths.v, <<value, Str(key)>>))
             THEN omitKeys_keepListed([h EXCEPT ![c] = PutOwn(@, key, value)], obj, paths, c, j + 1)
             ELSE omitKeys_keepListed(h, obj, paths, c, j + 1)

\* for (const key in obj) { ... } of omit from the j-th key on
omitKeys(h, obj, paths, c, j) ==
  LET ks == ForInKeys(h, obj)
  IN IF j > Len(ks) THEN [h |-> h, val |-> Ref(c)]
     ELSE LET key == ks[j]
              value == GetProp(h, obj, key)
          IN IF IsArrayVal(h, paths) /\ ~includes(h, paths, key)
             THEN omitKeys([h EXCEPT ![c] = PutOwn(@, key, value)], obj, paths, c, j + 1)
             ELSE IF paths.t = "fn" /\ ~Truthy(FnCall(Undef, paths.v, <<value, Str(key)>>))
             THEN omitKeys([h EXCEPT ![c] = PutOwn(@, key, value)], obj, paths, c, j + 1)
             ELSE omitKeys(h, obj, paths, c, j + 1)

omit(h, obj, paths) == omitKeys(Append(h, EmptyObj), obj, paths, Len(h) + 1, 1)

--------------------------------------------------------------------------
(* filter, find, findRight, matches, forEach, map: src/src/collections.ts:242-341 *)

\* what a call that throws hands back
Throw == [t |-> "throw", v |-> 0, s |-> <<>>]

\* x?.[k]
OptGet(h, x, k) == IF isNull(x) THEN Undef ELSE GetProp(h, x, k)

\* the elements of vals_ whose positions are in Keep, in their order
RECURSIVE PickIdx(_, _, _)
PickIdx(vals_, Keep, j) ==
  IF j > Len(vals_) THEN <<>>
  ELSE (IF j \in Keep THEN <<vals_[j]>> ELSE <<>>) \o PickIdx(vals_, Keep, j + 1)

Min(S) == CHOOSE i \in S : \A j \in S : i <= j
Max(S) == CHOOSE i \in S : \A j \in S : i >= j

\* matches(o)(x)
matches(h, o, x) ==
  \A i \in DOMAIN ForInKeys(h, o) :
    eq(OptGet(h, x, ForInKeys(h, o)[i]), GetProp(h, o, ForInKeys(h, o)[i]))

\* the positions of arr a native filter or find keeps under fn(x, i, arr)
KeptByFn(h, fn, arr) ==
  {i \in DOMAIN h[arr.v].vals : Truthy(FnCall(Undef, fn.v, <<h[arr.v].vals[i], Num(i - 1), arr>>))}
\* the positions findRight keeps under fn(x)
KeptByCall(h, fn, arr) ==
  {i \in DOMAIN h[arr.v].vals : Truthy(FnCall(Undef, fn.v, <<h[arr.v].vals[i]>>))}
\* the positions kept under (x) => x?.[fn]
KeptByName(h, fn, arr) ==
  {i \in DOMAIN h[arr.v].vals : Truthy(OptGet(h, h[arr.v].vals[i], fn.s))}
\* a selection by name that asks whether the property is there, not whether it is truthy
KeptByName_present(h, fn, arr) ==
  {i \in DOMAIN h[arr.v].vals : OptGet(h, h[arr.v].vals[i], fn.s) # Undef}
\* the positions kept under matches(fn)
KeptByTemplate(h, fn, arr) ==
  {i \in DOMAIN h[arr.v].vals : matches(h, fn, h[arr.v].vals[i])}

\* a filter whose property-name form tests presence
filter_presence(h, fn, arr) ==
  IF IsArrayVal(h, arr)
  THEN IF isFunc(fn)
       THEN [h |-> Append(h, ArrOf(PickIdx(h[arr.v].vals, KeptByFn(h, fn, arr), 1))),
             val |-> Ref(Len(h) + 1)]
       ELSE IF isString(h, fn)
       THEN [h |-> Append(h, ArrOf(PickIdx(h[arr.v].vals, KeptByName_present(h, fn, arr), 1))),
             val |-> Ref(Len(h) + 1)]
       ELSE IF isObject(h, fn)
       THEN [h |-> Append(h, ArrOf(PickIdx(h[arr.v].vals, KeptByTemplate(h, fn, arr), 1))),
             val |-> Ref(Len(h) + 1)]
       ELSE [h |-> h, val |-> Undef]
  ELSE [h |-> h, val |-> Undef]

filter(h, fn, arr) ==
  IF IsArrayVal(h, arr)
  THEN IF isFunc(fn)
       THEN [h |-> Append(h, ArrOf(PickIdx(h[arr.v].vals, KeptByFn(h, fn, arr), 1))),
             val |-> Ref(Len(h) + 1)]
       ELSE IF isString(h, fn)
       THEN [h |-> Append(h, ArrOf(PickIdx(h[arr.v].vals, KeptByName(h, fn, arr), 1))),
             val |-> Ref(Len(h) + 1)]
       ELSE IF isObject(h, fn)
       THEN [h |-> Append(h, ArrOf(PickIdx(h[arr.v].vals, KeptByTemplate(h, fn, arr), 1))),
             val |-> Ref(Len(h) + 1)]
       ELSE [h |-> h, val |-> Undef]
  ELSE [h |-> h, val |-> Undef]

\* the first element at a kept position, undefined when none is kept
FirstOf(h, arr, Keep) == IF Keep = {} THEN Undef ELSE h[arr.v].vals[Min(Keep)]
LastOf(h, arr, Keep) == IF Keep = {} THEN Undef ELSE h[arr.v].vals[Max(Keep)]

find(h, fn, arr) ==
  IF IsArrayVal(h, arr)
  THEN IF isFunc(fn) THEN [h |-> h, val |-> FirstOf(h, arr, KeptByFn(h, fn, arr))]
       ELSE IF isString(h, fn) THEN [h |-> h, val |-> FirstOf(h, arr, KeptByName(h, fn, arr))]
       ELSE IF isObject(h, fn) THEN [h |-> h, val |-> FirstOf(h, arr, KeptByTemplate(h, fn, arr))]
       ELSE [h |-> h, val |-> Undef]
  ELSE [h |-> h, val |-> Undef]

\* a findRight that scans from the front
findRight_first(h, fn, arr) ==
  IF IsArrayVal(h, arr)
  THEN IF isFunc(fn) THEN [h |-> h, val |-> FirstOf(h, arr, KeptByCall(h, fn, arr))]
       ELSE IF isString(h, fn) THEN [h |-> h, val |-> FirstOf(h, arr, KeptByName(h, fn, arr))]
       ELSE IF isObject(h, fn) THEN [h |-> h, val |-> FirstOf(h, arr, KeptByTemplate(h, fn, arr))]
       ELSE [h |-> h, val |-> Undef]
  ELSE [h |-> h, val |-> Undef]

\* the loop of findRight runs from the last position down and returns at the
\* first element that passes the test of fn's shape
findRight(h, fn, arr) ==
  IF IsArrayVal(h, arr)
  THEN IF isFunc(fn) THEN [h |-> h, val |-> LastOf(h, arr, KeptByCall(h, fn, arr))]
       ELSE IF isString(h, fn) THEN [h |-> h, val |-> LastOf(h, arr, KeptByName(h, fn, arr))]
       ELSE IF isObject(h, fn) THEN [h |-> h, val |-> LastOf(h, arr, KeptByTemplate(h, fn, arr))]
       ELSE [h |-> h, val |-> Undef]
  ELSE [h |-> h, val |-> Undef]

\* forEach(fn, arr): fn is called on every element or on every key and the
\* results are dropped
forEach(h, fn, arr) ==
  IF IsArrayVal(h, arr)
  THEN IF ~isFunc(fn) /\ h[arr.v].vals # <<>> THEN [h |-> h, val |-> Throw]
       ELSE [h |-> h, val |-> Undef]
  ELSE IF isObject(h, arr)
  THEN IF ~isFunc(fn) /\ keys(h, arr) # <<>> THEN [h |-> h, val |-> Throw]
       ELSE [h |-> h, val |-> Undef]
  ELSE [h |-> h, val |-> Undef]

\* the result of the iteratee of map on the i-th element of an array
MapItem(h, fn, arr, i) ==
  LET x == h[arr.v].vals[i]
  IN IF fn.t = "str" THEN (IF isNull(x) THEN Throw ELSE GetProp(h, x, fn.s))
     ELSE IF isFunc(fn) THEN FnCall(Undef, fn.v, <<x, Num(i - 1), arr>>)
     ELSE Throw

\* an iteratee call over a mapping that passes the value only
MapEntry_valueOnly(h, fn, arr, i) ==
  LET key == keys(h, arr)[i]
  IN IF isFunc(fn) THEN FnCall(Undef, fn.v, <<GetProp(h, arr, key)>>)
     ELSE Throw

\* the result of the iteratee of map on the i-th key of a mapping
MapEntry(h, fn, arr, i) ==
  LET key == keys(h, arr)[i]
  IN IF isFunc(fn) THEN FnCall(Undef, fn.v, <<GetProp(h, arr, key), Str(key), arr>>)
     ELSE Throw

map(h, fn, arr) ==
  IF IsArrayVal(h, arr)
  THEN LET out == [i \in DOMAIN h[arr.v].vals |-> MapItem(h, fn, arr, i)]
       IN IF Throw \in Range(out) THEN [h |-> h, val |-> Throw]
          ELSE [h |-> Append(h, ArrOf(out)), val |-> Ref(Len(h) + 1)]
  ELSE IF isObject(h, arr)
  THEN LET out == [i \in DOMAIN keys(h, arr) |-> MapEntry(h, fn, arr, i)]
       IN IF Throw \in Range(out) THEN [h |-> h, val |-> Throw]
          ELSE [h |-> Append(h, ArrOf(out)), val |-> Ref(Len(h) + 1)]
  ELSE [h |-> h, val |-> Undef]

--------------------------------------------------------------------------
(* get, call: src/src/globals/index.ts:245-249, 320-337
   contains, index: src/src/collections.ts:375-398 *)

KeyLength == <<"l", "e", "n", "g", "t", "h">>
KeyContains == <<"c", "o", "n", "t", "a", "i", "n", "s">>
KeyIndexOf == <<"i", "n", "d", "e", "x", "O", "f">>
KeyIndex == <<"i", "n", "d", "e", "x">>

\* base[k] for any base; reading a property of null or undefined throws
Member(h, base, k) ==
  CASE isNull(base) -> Throw
    [] base.t = "throw" -> Throw
    [] OTHER -> GetProp(h, base, k)

\* key.split('.') as string values
RECURSIVE SplitDots(_, _)
SplitDots(cs, cur) ==
  IF cs = <<>> THEN <<Str(cur)>>
  ELSE IF Head(cs) = "." THEN <<Str(cur)>> \o SplitDots(Tail(cs), <<>>)
  ELSE SplitDots(Tail(cs), Append(cur, Head(cs)))

\* for (const k of paths) result = result[k]
RECURSIVE Walk(_, _, _, _)
Walk(h, result, paths, j) ==
  IF j > Len(paths) THEN result
  ELSE Walk(h, Member(h, result, ToKey(h, paths[j])), paths, j + 1)

\* get(key, obj, value)
get(h, key, obj, value) ==
  IF isNull(obj) THEN value
  ELSE LET paths == IF key.t = "str" THEN SplitDots(key.s, <<>>)
                    ELSE IF IsArrayVal(h, key) THEN h[key.v].vals
                    ELSE <<key>>
           result == Walk(h, obj, paths, 1)
       IN IF result = Throw \/ result = Undef THEN value ELSE result

\* call(obj, key, ...args): obj[key](...args) when get(key, obj) is a function
call(h, obj, key, args) ==
  IF isFunc(get(h, key, obj, Undef))
  THEN LET m == Member(h, obj, ToKey(h, key))
       IN IF m.t = "fn" THEN FnCall(obj, m.v, args) ELSE Throw
  ELSE Undef

\* obj.length
LengthOf(h, obj) == Member(h, obj, KeyLength)

\* for (; start < length; start++) if (eq(x, obj[start])) return start
RECURSIVE indexScan(_, _, _, _, _)
indexScan(h, obj, x, start, length) ==
  IF ~(start < length) THEN Num(-1)
  ELSE IF eq(x, Member(h, obj, IntToKey(start))) THEN Num(start)
  ELSE indexScan(h, obj, x, start + 1, length)

\* index(obj, x, start = 0); start is a number
index(h, obj, x, start) ==
  LET op1 == call(h, Str(KeyIndexOf), obj, <<x>>)
      op2 == call(h, Str(KeyIndex), obj, <<x>>)
      length == LengthOf(h, obj)
  IN IF ~isNull(op1) THEN op1
     ELSE IF ~isNull(op2) THEN op2
     ELSE IF length = Throw THEN Throw
     ELSE IF length.t # "num" THEN Num(-1)
     ELSE LET start1 == IF start < 0
                        THEN (IF start + length.v > 0 THEN start + length.v ELSE 0)
                        ELSE start
          IN IF isString(h, obj)
             THEN IF start1 >= length.v THEN Num(-1)
                  ELSE Num(StrIndexOf(obj.s, ToKey(h, x), start1))
             ELSE indexScan(h, obj, x, start1, length.v)

\* contains(arr, y)
contains(h, arr, y) ==
  LET op1 == call(h, Str(KeyContains), arr, <<y>>)
      i == index(h, arr, y, 0)
  IN IF ~isNull(op1) THEN op1
     ELSE IF i = Throw THEN Throw
     ELSE IF i.t = "num" THEN Bool(i.v >= 0)
     ELSE Bool(FALSE)

--------------------------------------------------------------------------
(* uniq, sortedUniq: src/src/collections.ts:425-441 *)

\* the values a for-of loop over arr visits; null when arr is not iterable
Iterate(h, arr) ==
  IF IsArrayVal(h, arr) THEN h[arr.v].vals
  ELSE IF arr.t = "str" THEN [i \in DOMAIN arr.s |-> Str(<<arr.s[i]>>)]
  ELSE <<Throw>>

IsIterable(h, arr) == IsArrayVal(h, arr) \/ arr.t = "str"

\* id(x) of the operators module
id == FnId

\* comp(x, y) of the operators module: -1, 0 or 1
comp(x, y) ==
  IF x.t = "num" /\ y.t = "num"
  THEN (IF x.v < y.v THEN -1 ELSE IF x.v > y.v THEN 1 ELSE 0)
  ELSE 0

\* a uniq loop in which the first element of a key wins
RECURSIVE uniqLoop_firstWins(_, _, _, _, _)
uniqLoop_firstWins(h, items, fn, ks, j) ==
  IF j > Len(items) THEN ks
  ELSE LET x == items[j]
           derived == IF fn.t = "fn" THEN FnCall(Undef, fn.v, <<x>>)
                      ELSE IF isNull(x) THEN Throw
                      ELSE GetProp(h, x, ToKey(h, fn))
       IN IF derived = Throw THEN Throw
          ELSE IF KeyPos(ks.keys, ToKey(h, x)) > 0
          THEN uniqLoop_firstWins(h, items, fn, ks, j + 1)
          ELSE uniqLoop_firstWins(h, items, fn, PutOwn(ks, ToKey(h, x), derived), j + 1)

\* for (const x of arr) { keys[x] = ... } from the j-th item on; ks is the
\* local mapping keys, or Throw once an item has thrown
RECURSIVE uniqLoop(_, _, _, _, _)
uniqLoop(h, items, fn, ks, j) ==
  IF j > Len(items) THEN ks
  ELSE LET x == items[j]
           derived == IF fn.t = "fn" THEN FnCall(Undef, fn.v, <<x>>)
                      ELSE IF isNull(x) THEN Throw
                      ELSE GetProp(h, x, ToKey(h, fn))
       IN IF derived = Throw THEN Throw
          ELSE uniqLoop(h, items, fn, PutOwn(ks, ToKey(h, x), derived), j + 1)

\* uniq(arr, fn = id)
uniq(h, arr, fn) ==
  IF ~IsIterable(h, arr) THEN [h |-> h, val |-> Throw]
  ELSE LET ks == uniqLoop(h, Iterate(h, arr), fn, EmptyObj, 1)
       IN IF ks = Throw THEN [h |-> h, val |-> Throw]
          ELSE [h |-> Append(h, ArrOf(ks.vals)), val |-> Ref(Len(h) + 1)]

\* lst.sort(fn): a stable sort; undefined elements go last whatever fn says
RECURSIVE InsertSorted(_, _), InsertionSort(_)
InsertSorted(q, x) ==
  IF q = <<>> THEN <<x>>
  ELSE IF comp(x, q[Len(q)]) < 0
  THEN Append(InsertSorted(SubSeq(q, 1, Len(q) - 1), x), q[Len(q)])
  ELSE Append(q, x)
InsertionSort(q) == IF q = <<>> THEN <<>> ELSE InsertSorted(InsertionSort(SubSeq(q, 1, Len(q) - 1)), q[Len(q)])

sort(vals_) ==
  InsertionSort(SelectSeq(vals_, LAMBDA x : x # Undef)) \o SelectSeq(vals_, LAMBDA x : x = Undef)

\* a sortedUniq that sorts the array it was given
sortedUniq_sortsInput(h, arr, fn) ==
  LET r == uniq(h, arr, fn)
  IN IF r.val = Throw THEN r
     ELSE IF IsArrayVal(h, arr)
     THEN [h |-> [r.h EXCEPT ![arr.v].vals = sort(@), ![r.val.v].vals = sort(@)], val |-> r.val]
     ELSE [h |-> [r.h EXCEPT ![r.val.v].vals = sort(@)], val |-> r.val]

\* sortedUniq(arr, fn = id)
sortedUniq(h, arr, fn) ==
  LET r == uniq(h, arr, fn)
  IN IF r.val = Throw THEN r
     ELSE [h |-> [r.h EXCEPT ![r.val.v].vals = sort(@)], val |-> r.val]

--------------------------------------------------------------------------
(* The parts of the state a specification does not use stay as constructed *)

\* no call has been made on a Collection
ClIdle == clLog = <<>>

\* the closures of functools hold their initial values; w and mw are the wait
\* and maxWait the wrapper was made with
FtStart(w, mw) ==
  /\ now = 0
  /\ timeouts = {}
  /\ nextId = 1
  /\ invocations = <<>>
  /\ calls = <<>>
  /\ isCalled = FALSE
  /\ onceResult = Undef
  /\ cache = {}
  /\ resolver = Undef
  /\ pending = FALSE
  /\ timer = 0
  /\ maxTimer = 0
  /\ lastResult = Undef
  /\ wait = w
  /\ maxWait = mw

FtIdle == FtStart(0, 0)

--------------------------------------------------------------------------
(* FrozenSet, src/src/collections.ts:210-234 *)

FrozenErr == "TypeError: FrozenSet cannot be modified."

\* Set.prototype.add of the host: the element joins [[SetData]].
NativeSet_add(data, x) == [threw |-> FALSE, err |-> "", data |-> data \cup {x}]

\* add() { throw TypeError('FrozenSet cannot be modified.') }
FrozenSet_add(data, x) == [threw |-> TRUE, err |-> FrozenErr, data |-> data]

\* delete() { throw TypeError('FrozenSet cannot be modified.') }
FrozenSet_delete(data, x) == [threw |-> TRUE, err |-> FrozenErr, data |-> data]

\* clear() { throw TypeError('FrozenSet cannot be modified.') }
FrozenSet_clear(data) == [threw |-> TRUE, err |-> FrozenErr, data |-> data]

\* super(iterable): the Set constructor of the host looks up this.add, which is
\* the override of the subclass, and calls it once per element of the iterable;
\* the first call that throws ends the construction.
RECURSIVE Set_constructor(_, _)
Set_constructor(data, iterable) ==
  IF iterable = <<>> THEN [threw |-> FALSE, err |-> "", data |-> data]
  ELSE LET r == FrozenSet_add(data, Head(iterable))
       IN IF r.threw THEN r ELSE Set_constructor(r.data, Tail(iterable))

\* constructor(iterable) { super(iterable); return this.freeze() }
FrozenSet_constructor(iterable) == Set_constructor({}, iterable)

Elems == 1..MaxElem

FsInit ==
  /\ fsState = "none"
  /\ fsData = {}
  /\ fsInit = <<>>
  /\ fsS = {}
  /\ fsLog = <<>>

\* new FrozenSet(iterable), also after an earlier construction failed
FsConstruct ==
  /\ fsState \in {"none", "failed"}
  /\ \E it \in SeqsUpTo(Elems, MaxIterLen) :
       LET r == FrozenSet_constructor(it)
       IN /\ fsInit' = it
          /\ fsState' = IF r.threw THEN "failed" ELSE "alive"
          /\ fsData' = r.data
          /\ fsS' = r.data
          /\ fsLog' = <<>>

\* fs.add(x), the failure caught by the caller
FsAdd ==
  /\ fsState = "alive"
  /\ Len(fsLog) < MaxCalls
  /\ \E x \in Elems :
       LET r == FrozenSet_add(fsData, x)
       IN /\ fsData' = r.data
          /\ fsLog' = Append(fsLog, [name |-> "add", arg |-> x, threw |-> r.threw])
  /\ UNCHANGED <<fsState, fsInit, fsS>>

\* fs.delete(x), the failure caught by the caller
FsDelete ==
  /\ fsState = "alive"
  /\ Len(fsLog) < MaxCalls
  /\ \E x \in Elems :
       LET r == FrozenSet_delete(fsData, x)
       IN /\ fsData' = r.data
          /\ fsLog' = Append(fsLog, [name |-> "delete", arg |-> x, threw |-> r.threw])
  /\ UNCHANGED <<fsState, fsInit, fsS>>

\* fs.clear(), the failure caught by the caller
FsClear ==
  /\ fsState = "alive"
  /\ Len(fsLog) < MaxCalls
  /\ LET r == FrozenSet_clear(fsData)
     IN /\ fsData' = r.data
        /\ fsLog' = Append(fsLog, [name |-> "clear", arg |-> 0, threw |-> r.threw])
  /\ UNCHANGED <<fsState, fsInit, fsS>>

CollIdle ==
  /\ heap = <<>>
  /\ root = Undef
  /\ pc = "idle"
  /\ op = [name |-> "none"]
  /\ ret = Undef
  /\ pre = <<>>
  /\ stack = <<>>

InitFrozenSet == FsInit /\ CollIdle /\ ClIdle /\ FtIdle

NextFrozenSet ==
  \/ FsConstruct /\ UNCHANGED <<collVars, clVars, ftVars>>
  \/ FsAdd /\ UNCHANGED <<collVars, clVars, ftVars>>
  \/ FsDelete /\ UNCHANGED <<collVars, clVars, ftVars>>
  \/ FsClear /\ UNCHANGED <<collVars, clVars, ftVars>>

SpecFrozenSet == InitFrozenSet /\ [][NextFrozenSet]_vars

--------------------------------------------------------------------------
(* Claims about FrozenSet, checked under SpecFrozenSet *)

\* C1: on a constructed FrozenSet every add, delete and clear call fails, also
\* when the caller catches the failure and calls again, and after every call
\* the elements are exactly those the set held when it was constructed.
C1_FrozenNeverChanges ==
  fsState = "alive" =>
    /\ fsData = fsS
    /\ fsData = Range(fsInit)
    /\ \A i \in DOMAIN fsLog : fsLog[i].threw

\* C1 witness: a constructed set on which add was tried, failed, and was tried again.
C1_Witness ==
  /\ fsState = "alive"
  /\ Len(fsLog) >= 2
  /\ fsLog[1].name = "add" /\ fsLog[1].threw
  /\ fsLog[2] = fsLog[1]
  /\ fsData = fsS

\* C2: constructing a FrozenSet from a finite iterable succeeds and the set
\* holds exactly the distinct elements of the iterable.
C2_ConstructionYieldsElements ==
  fsState # "none" => (fsState = "alive" /\ fsData = Range(fsInit))

--------------------------------------------------------------------------
(* flatten and flattenArray on nested arrays: SpecFlatten *)

FlattenLeaves == {Num(1), Num(2)}

FlattenInputs ==
  UNION {{tr \in ArrayTrees(FlattenLeaves, n) : tr.t = "arr"} : n \in 1..MaxNodes}

Depths == {DepthNum(n) : n \in -1..MaxDepth} \cup {DepthTrue, DepthFalse}

FsIdle ==
  /\ fsState = "none"
  /\ fsData = {}
  /\ fsInit = <<>>
  /\ fsS = {}
  /\ fsLog = <<>>

InitFlatten ==
  /\ \E tr \in FlattenInputs :
       LET r == AllocTree(<<>>, tr)
       IN heap = r.h /\ root = r.val
  /\ pc = "ready"
  /\ op = [name |-> "none"]
  /\ ret = Undef
  /\ pre = <<>>
  /\ stack = <<>>
  /\ FsIdle
  /\ ClIdle
  /\ FtIdle

\* the call returns r.val and leaves the heap r.h; h0 is the heap the call found
Return(h0, r) ==
  /\ heap' = r.h
  /\ ret' = r.val
  /\ pre' = h0
  /\ pc' = "done"
  /\ UNCHANGED <<root, stack>>

\* flatten(root, depth)
DoFlatten ==
  /\ pc = "ready"
  /\ \E d \in Depths :
       /\ op' = [name |-> "flatten", depth |-> d]
       /\ Return(heap, flatten(heap, root, d))

\* flattenArray(root, depth)
DoFlattenArray ==
  /\ pc = "ready"
  /\ IsArrayVal(heap, root)
  /\ \E d \in Depths :
       /\ op' = [name |-> "flattenArray", depth |-> d]
       /\ Return(heap, flattenArray(heap, root, d))

\* flatten(root.slice(), 1)
DoFlattenSlice ==
  /\ pc = "ready"
  /\ IsArrayVal(heap, root)
  /\ op' = [name |-> "flattenSlice", depth |-> DepthNum(1)]
  /\ LET c == slice(heap, root)
     IN Return(heap, flatten(c.h, c.val, DepthNum(1)))

NextFlatten ==
  \/ DoFlatten /\ UNCHANGED <<fsVars, clVars, ftVars>>
  \/ DoFlattenArray /\ UNCHANGED <<fsVars, clVars, ftVars>>
  \/ DoFlattenSlice /\ UNCHANGED <<fsVars, clVars, ftVars>>

SpecFlatten == InitFlatten /\ [][NextFlatten]_vars

\* C3: the result of flatten(A.slice(), 1) holds no element that was a
\* directly nested array element of A.
C3_NoTopLevelArrayLeft ==
  (pc = "done" /\ op.name = "flattenSlice") =>
    \A i \in DOMAIN heap[ret.v].vals :
      LET e == heap[ret.v].vals[i]
      IN ~(IsArrayVal(heap, e) /\ e \in Range(pre[root.v].vals))

\* C4: flattenArray(arr, depth) returns arr itself, makes no copy, and the
\* flattening shows in arr: with a truthy depth, an array that was arr's first
\* element is no longer there.
C4_InPlaceSameReference ==
  (pc = "done" /\ op.name = "flattenArray") =>
    /\ ret = root
    /\ Len(heap) = Len(pre)
    /\ (~DepthFalsy(op.depth) /\ pre[root.v].vals # <<>> /\ IsArrayVal(pre, pre[root.v].vals[1]))
         => heap[root.v].vals # pre[root.v].vals
    /\ DepthFalsy(op.depth) => heap = pre

\* C4 witness: flattenArray has replaced a nested array of arr by its elements.
C4_Witness ==
  /\ pc = "done" /\ op.name = "flattenArray"
  /\ ret = root
  /\ Len(heap[root.v].vals) > Len(pre[root.v].vals)

--------------------------------------------------------------------------
(* The algorithms on the caller's values: Spec *)

GraphLeaves == {Num(0), Num(1), Null}
GraphKeys == {KeyA, KeyB}

Graphs == UNION {MixedTrees(GraphLeaves, GraphKeys, n) : n \in 1..MaxGraph}

Rows ==
  { ObjT(<<KeyA>>, <<Leaf(Num(0))>>), ObjT(<<KeyA>>, <<Leaf(Num(1))>>),
    ObjT(<<KeyA, KeyB>>, <<Leaf(Num(1)), Leaf(Num(1))>>), ObjT(<<KeyB>>, <<Leaf(Num(1))>>),
    Leaf(Num(0)), Leaf(Num(1)), Leaf(Null), Leaf(Undef) }

RowArrays == {ArrT(q) : q \in SeqsUpTo(Rows, MaxRows)}

\* the caller's own containers: mappings that carry contains, indexOf or index,
\* callable or not
Containers ==
  { ObjT(<<KeyContains>>, <<Leaf(Fn(FnTrue))>>),
    ObjT(<<KeyContains>>, <<Leaf(Fn(FnSeven))>>),
    ObjT(<<KeyContains>>, <<Leaf(Fn(FnNull))>>),
    ObjT(<<KeyContains>>, <<Leaf(Num(1))>>),
    ObjT(<<KeyIndexOf>>, <<Leaf(Fn(FnSeven))>>),
    ObjT(<<KeyIndex>>, <<Leaf(Fn(FnSeven))>>),
    ObjT(<<KeyIndexOf, KeyIndex>>, <<Leaf(Fn(FnSeven)), Leaf(Fn(FnTrue))>>),
    ObjT(<<KeyIndexOf, KeyIndex>>, <<Leaf(Num(0)), Leaf(Fn(FnSeven))>>),
    ObjT(<<<<"0">>, KeyContains, KeyLength>>, <<Leaf(Num(1)), Leaf(Fn(FnTrue)), Leaf(Num(1))>>) }

Strings == {Leaf(Str(<<"h", "e", "l", "l", "o">>)), Leaf(Str(KeyIndexOf))}

\* the array of the documented use of uniq, [1, 1, 2, 3, 3], and the mapping
\* of the documented use of flattenObj, {a: {b: [1, 2]}}
Examples ==
  { ArrT(<<Leaf(Num(1)), Leaf(Num(1)), Leaf(Num(2)), Leaf(Num(3)), Leaf(Num(3))>>),
    ObjT(<<KeyA>>, <<ObjT(<<KeyB>>, <<ArrT(<<Leaf(Num(1)), Leaf(Num(2))>>)>>)>>) }

CollInputs == Graphs \cup RowArrays \cup Containers \cup Strings \cup Examples

Init ==
  /\ \E tr \in CollInputs :
       LET r == AllocTree(<<>>, tr)
       IN heap = r.h /\ root = r.val
  /\ pc = "ready"
  /\ op = [name |-> "none"]
  /\ ret = Undef
  /\ pre = <<>>
  /\ stack = <<>>
  /\ FsIdle
  /\ ClIdle
  /\ FtIdle

\* clone(root, deep)
DoClone ==
  /\ pc = "ready"
  /\ \E deep \in BOOLEAN :
       /\ op' = [name |-> "clone", deep |-> deep]
       /\ Return(heap, clone(heap, root, deep))

\* cloneArray(root, deep)
DoCloneArray ==
  /\ pc = "ready"
  /\ IsArrayVal(heap, root)
  /\ \E deep \in BOOLEAN :
       /\ op' = [name |-> "cloneArray", deep |-> deep]
       /\ Return(heap, cloneArray(heap, root, deep))

\* the caller changes a nested field of a clone: c[i] = 9 for a container c of the clone
Poke ==
  /\ pc = "done"
  /\ op.name \in {"clone", "cloneArray"}
  /\ \E c \in Reach(heap, ret) : \E i \in DOMAIN heap[c].vals :
       heap' = [heap EXCEPT ![c].vals[i] = Num(9)]
  /\ pc' = "poked"
  /\ UNCHANGED <<root, op, ret, pre, stack>>

\* the key lists and the predicates the caller gives to pick and omit
KeyLists == {<<>>, <<KeyA>>, <<KeyA, KeyZ>>, <<KeyB, KeyA>>, <<KeyA, KeyA>>}
KeyPreds == {FnTrue, FnFalse, FnKeyIsA, FnId}
KeyListT(q) == ArrT([i \in DOMAIN q |-> Leaf(Str(q[i]))])

\* pick(root, [...keys]) and pick(root, predicate)
DoPick ==
  /\ pc = "ready"
  /\ \/ \E q \in KeyLists :
          LET a == AllocTree(heap, KeyListT(q))
          IN /\ op' = [name |-> "pick", form |-> "list", paths |-> a.val]
             /\ Return(a.h, pick(a.h, root, a.val))
     \/ \E f \in KeyPreds :
          /\ op' = [name |-> "pick", form |-> "fn", paths |-> Fn(f)]
          /\ Return(heap, pick(heap, root, Fn(f)))

\* omit(root, [...keys]) and omit(root, predicate)
DoOmit ==
  /\ pc = "ready"
  /\ \/ \E q \in KeyLists :
          LET a == AllocTree(heap, KeyListT(q))
          IN /\ op' = [name |-> "omit", form |-> "list", paths |-> a.val]
             /\ Return(a.h, omit(a.h, root, a.val))
     \/ \E f \in KeyPreds :
          /\ op' = [name |-> "omit", form |-> "fn", paths |-> Fn(f)]
          /\ Return(heap, omit(heap, root, Fn(f)))

\* the selectors the caller gives to filter, find and findRight: predicate
\* functions, property names, and templates laid out on the heap for the call
SelFns == {FnTrue, FnFalse, FnId, FnIsOne}
SelNames == {KeyA, KeyB}
Templates ==
  { ObjT(<<>>, <<>>), ObjT(<<KeyA>>, <<Leaf(Num(1))>>), ObjT(<<KeyA>>, <<Leaf(Num(0))>>),
    ObjT(<<KeyA, KeyB>>, <<Leaf(Num(1)), Leaf(Num(1))>>) }

\* filter(selector, root)
DoFilter ==
  /\ pc = "ready"
  /\ \/ \E f \in SelFns :
          /\ op' = [name |-> "filter", form |-> "fn", sel |-> Fn(f)]
          /\ Return(heap, filter(heap, Fn(f), root))
     \/ \E k \in SelNames :
          /\ op' = [name |-> "filter", form |-> "name", sel |-> Str(k)]
          /\ Return(heap, filter(heap, Str(k), root))
     \/ \E tm \in Templates :
          LET a == AllocTree(heap, tm)
          IN /\ op' = [name |-> "filter", form |-> "template", sel |-> a.val]
             /\ Return(a.h, filter(a.h, a.val, root))

\* find(selector, root)
DoFind ==
  /\ pc = "ready"
  /\ \/ \E f \in SelFns :
          /\ op' = [name |-> "find", form |-> "fn", sel |-> Fn(f)]
          /\ Return(heap, find(heap, Fn(f), root))
     \/ \E k \in SelNames :
          /\ op' = [name |-> "find", form |-> "name", sel |-> Str(k)]
          /\ Return(heap, find(heap, Str(k), root))
     \/ \E tm \in Templates :
          LET a == AllocTree(heap, tm)
          IN /\ op' = [name |-> "find", form |-> "template", sel |-> a.val]
             /\ Return(a.h, find(a.h, a.val, root))

\* findRight(selector, root)
DoFindRight ==
  /\ pc = "ready"
  /\ \/ \E f \in SelFns :
          /\ op' = [name |-> "findRight", form |-> "fn", sel |-> Fn(f)]
          /\ Return(heap, findRight(heap, Fn(f), root))
     \/ \E k \in SelNames :
          /\ op' = [name |-> "findRight", form |-> "name", sel |-> Str(k)]
          /\ Return(heap, findRight(heap, Str(k), root))
     \/ \E tm \in Templates :
          LET a == AllocTree(heap, tm)
          IN /\ op' = [name |-> "findRight", form |-> "template", sel |-> a.val]
             /\ Return(a.h, findRight(a.h, a.val, root))

\* forEach(fn, root)
DoForEach ==
  /\ pc = "ready"
  /\ \E f \in SelFns :
       /\ op' = [name |-> "forEach", form |-> "fn", sel |-> Fn(f)]
       /\ Return(heap, forEach(heap, Fn(f), root))

\* map(fn, root) and map(name, root)
DoMap ==
  /\ pc = "ready"
  /\ \/ \E f \in SelFns \cup {FnKeyIsA} :
          /\ op' = [name |-> "map", form |-> "fn", sel |-> Fn(f)]
          /\ Return(heap, map(heap, Fn(f), root))
     \/ \E k \in SelNames :
          /\ op' = [name |-> "map", form |-> "name", sel |-> Str(k)]
          /\ Return(heap, map(heap, Str(k), root))

\* the values the caller looks for with contains and index
Needles == {Num(0), Num(1), Str(<<"l">>), Str(<<>>), Null}

\* the positions the caller starts the search of index from
Starts == {-6, -2, -1, 0, 1, 3, 5}

\* contains(root, y)
DoContains ==
  /\ pc = "ready"
  /\ \E y \in Needles :
       /\ op' = [name |-> "contains", x |-> y, start |-> 0]
       /\ Return(heap, [h |-> heap, val |-> contains(heap, root, y)])

\* index(root, x, start)
DoIndex ==
  /\ pc = "ready"
  /\ \E x \in Needles, start \in Starts :
       /\ op' = [name |-> "index", x |-> x, start |-> start]
       /\ Return(heap, [h |-> heap, val |-> index(heap, root, x, start)])

\* the iteratees the caller gives to uniq and sortedUniq; Undef is the omitted argument
UniqFns == {Undef, Fn(FnId), Fn(FnIsOne), Str(KeyA)}

\* uniq(root, fn)
DoUniq ==
  /\ pc = "ready"
  /\ \E f \in UniqFns :
       /\ op' = [name |-> "uniq", sel |-> f]
       /\ Return(heap, uniq(heap, root, IF f = Undef THEN Fn(id) ELSE f))

\* sortedUniq(root, fn)
DoSortedUniq ==
  /\ pc = "ready"
  /\ \E f \in UniqFns :
       /\ op' = [name |-> "sortedUniq", sel |-> f]
       /\ Return(heap, sortedUniq(heap, root, IF f = Undef THEN Fn(id) ELSE f))

\* the result mappings the caller gives to flattenObj
ResultArgs == {ObjT(<<>>, <<>>), ObjT(<<KeyZ>>, <<Leaf(Num(5))>>)}
Prefixes == {<<>>, <<"p">>}

\* flattenObj(root, prefix, result, keepNull), with and without a result argument
DoFlattenObj ==
  /\ pc = "ready"
  /\ \E prefix \in Prefixes, keepNull \in BOOLEAN :
       \/ /\ op' = [name |-> "flattenObj", prefix |-> prefix, result |-> Undef, keepNull |-> keepNull]
          /\ Return(heap, flattenObj(heap, root, prefix, Undef, keepNull))
       \/ \E rt \in ResultArgs :
            LET a == AllocTree(heap, rt)
            IN /\ op' = [name |-> "flattenObj", prefix |-> prefix, result |-> a.val,
                         keepNull |-> keepNull]
               /\ Return(a.h, flattenObj(a.h, root, prefix, a.val, keepNull))

Next ==
  \/ DoContains /\ UNCHANGED <<fsVars, clVars, ftVars>>
  \/ DoIndex /\ UNCHANGED <<fsVars, clVars, ftVars>>
  \/ DoUniq /\ UNCHANGED <<fsVars, clVars, ftVars>>
  \/ DoSortedUniq /\ UNCHANGED <<fsVars, clVars, ftVars>>
  \/ DoFlattenObj /\ UNCHANGED <<fsVars, clVars, ftVars>>
  \/ DoFlatten /\ UNCHANGED <<fsVars, clVars, ftVars>>
  \/ DoFlattenArray /\ UNCHANGED <<fsVars, clVars, ftVars>>
  \/ DoFilter /\ UNCHANGED <<fsVars, clVars, ftVars>>
  \/ DoFind /\ UNCHANGED <<fsVars, clVars, ftVars>>
  \/ DoFindRight /\ UNCHANGED <<fsVars, clVars, ftVars>>
  \/ DoForEach /\ UNCHANGED <<fsVars, clVars, ftVars>>
  \/ DoMap /\ UNCHANGED <<fsVars, clVars, ftVars>>
  \/ DoPick /\ UNCHANGED <<fsVars, clVars, ftVars>>
  \/ DoOmit /\ UNCHANGED <<fsVars, clVars, ftVars>>
  \/ DoClone /\ UNCHANGED <<fsVars, clVars, ftVars>>
  \/ DoCloneArray /\ UNCHANGED <<fsVars, clVars, ftVars>>
  \/ Poke /\ UNCHANGED <<fsVars, clVars, ftVars>>

Spec == Init /\ [][Next]_vars

\* C6: clone(G, true) is structurally equal to G and shares no array or object
\* with G, so that changing a nested field of the clone leaves G as it was.
C6_DeepCloneEqualAndDisjoint ==
  (op.name \in {"clone", "cloneArray"} /\ op.deep) =>
    /\ pc = "done" =>
         /\ TreeOf(heap, ret) = TreeOf(pre, root)
         /\ Reach(heap, ret) \cap Reach(heap, root) = {}
    /\ pc \in {"done", "poked"} => TreeOf(heap, root) = TreeOf(pre, root)

\* C6 witness: a nested field of a deep clone of a graph with a nested
\* container has been changed.
C6_Witness ==
  /\ pc = "poked" /\ op.name = "clone" /\ op.deep
  /\ \E c \in Reach(heap, ret) \ {ret.v} : \E i \in DOMAIN heap[c].vals :
       heap[c].vals[i] = Num(9)
  /\ TreeOf(heap, root) = TreeOf(pre, root)

\* the own keys of a value, as a set
KeySet(h, x) == Range(ForInKeys(h, x))

\* C8: pick(obj, list) returns a mapping whose keys are exactly the listed keys,
\* each mapped to obj[key], undefined when obj has no such key; pick of a null
\* or undefined obj returns an empty mapping.
C8_PickList ==
  (pc = "done" /\ op.name = "pick" /\ op.form = "list") =>
    /\ IsObjVal(heap, ret)
    /\ isNull(root) => heap[ret.v] = EmptyObj
    /\ ~isNull(root) =>
         /\ KeySet(heap, ret) = {ToKey(pre, x) : x \in Range(pre[op.paths.v].vals)}
         /\ \A k \in KeySet(heap, ret) : GetProp(heap, ret, k) = GetProp(pre, root, k)

\* C8 witness: a listed key that obj lacks is in the result, with the value undefined.
C8_Witness ==
  /\ pc = "done" /\ op.name = "pick" /\ op.form = "list"
  /\ IsObjVal(heap, root)
  /\ KeyA \in KeySet(heap, root) /\ KeyZ \notin KeySet(heap, root)
  /\ KeySet(heap, ret) = {KeyA, KeyZ}
  /\ GetProp(heap, ret, KeyZ) = Undef
  /\ GetProp(heap, ret, KeyA) # Undef

\* C9: omit(obj, L) holds exactly the own keys of obj that are not in L, with
\* their values; omit(obj, p) holds exactly the own keys for which p(value, key)
\* is false, so that pick(obj, p) and omit(obj, p) split the own keys of obj.
C9_OmitComplement ==
  (pc = "done" /\ op.name = "omit") =>
    /\ IsObjVal(heap, ret)
    /\ \A k \in KeySet(heap, ret) : GetProp(heap, ret, k) = GetProp(pre, root, k)
    /\ op.form = "list" =>
         KeySet(heap, ret) = KeySet(pre, root) \ {ToKey(pre, x) : x \in Range(pre[op.paths.v].vals)}
    /\ op.form = "fn" =>
         LET p == pick(pre, root, op.paths)
         IN /\ KeySet(heap, ret) =
                 {k \in KeySet(pre, root) :
                    ~Truthy(FnCall(Undef, op.paths.v, <<GetProp(pre, root, k), Str(k)>>))}
            /\ KeySet(heap, ret) \cap KeySet(p.h, p.val) = {}
            /\ KeySet(heap, ret) \cup KeySet(p.h, p.val) = KeySet(pre, root)

\* C9 witness: omit has dropped a listed key and kept another.
C9_Witness ==
  /\ pc = "done" /\ op.name = "omit" /\ op.form = "list"
  /\ KeySet(pre, root) = {KeyA, KeyB}
  /\ KeySet(heap, ret) = {KeyB}

\* whether the element x at position i of root satisfies the selector of the call
Satisfies(h, sel, x, i) ==
  CASE sel.t = "fn" -> Truthy(FnCall(Undef, sel.v, <<x, Num(i - 1), root>>))
    [] sel.t = "str" -> ~isNull(x) /\ Truthy(GetProp(h, x, sel.s))
    [] OTHER -> \A k \in KeySet(h, sel) :
                  (IF isNull(x) THEN Undef ELSE GetProp(h, x, k)) = GetProp(h, sel, k)

\* C10: over an array, filter with a predicate, a property name or a template
\* returns exactly the elements that satisfy the selector, in their order;
\* over anything else it returns no result.
C10_FilterSelects ==
  (pc = "done" /\ op.name = "filter") =>
    /\ IsArrayVal(pre, root) =>
         /\ IsArrayVal(heap, ret)
         /\ ret.v \notin DOMAIN pre
         /\ heap[ret.v].vals =
              PickIdx(pre[root.v].vals,
                      {i \in DOMAIN pre[root.v].vals : Satisfies(pre, op.sel, pre[root.v].vals[i], i)},
                      1)
    /\ ~IsArrayVal(pre, root) => ret = Undef

\* C10 witness: filter by property name has dropped an element whose property
\* is there but falsy, and kept a later one.
C10_Witness ==
  /\ pc = "done" /\ op.name = "filter" /\ op.form = "name"
  /\ IsArrayVal(pre, root) /\ Len(pre[root.v].vals) = 2
  /\ GetProp(pre, pre[root.v].vals[1], op.sel.s) = Num(0)
  /\ heap[ret.v].vals = <<pre[root.v].vals[2]>>

\* C7: when the operand carries a callable contains method, contains answers
\* with that method's result; when it carries a callable indexOf, index answers
\* with its result, and otherwise with the result of a callable index method.
C7_DuckTypedDelegation ==
  (pc = "done" /\ IsObjVal(pre, root)) =>
    /\ (op.name = "contains" /\ isFunc(GetProp(pre, root, KeyContains))) =>
         ret = FnCall(root, GetProp(pre, root, KeyContains).v, <<op.x>>)
    /\ (op.name = "index" /\ isFunc(GetProp(pre, root, KeyIndexOf))) =>
         ret = FnCall(root, GetProp(pre, root, KeyIndexOf).v, <<op.x>>)
    /\ (op.name = "index" /\ ~isFunc(GetProp(pre, root, KeyIndexOf))
          /\ isFunc(GetProp(pre, root, KeyIndex))) =>
         ret = FnCall(root, GetProp(pre, root, KeyIndex).v, <<op.x>>)

\* the algorithms C5 says change nothing the caller passed in
FrameOps ==
  {"filter", "find", "findRight", "forEach", "map", "pick", "omit", "contains", "index",
   "clone", "cloneArray", "flattenObj", "uniq", "sortedUniq"}

\* every container the caller had before the call is as it was
Unchanged(A) == \A a \in A : heap[a] = pre[a]

\* C5 as stated: none of the algorithms other than flattenArray changes any
\* value the caller passed in or any container reachable from it.
C5_NoArgumentChanges ==
  (pc = "done" /\ op.name \in FrameOps) => Unchanged(DOMAIN pre)

\* C5 as amended: flattenObj writes into the result mapping the caller passes,
\* and changes nothing else; the other algorithms change no container of the
\* caller; flatten on a value that is not an array changes none either, and
\* flattenArray changes arrays of its argument only.
C5_FrameExceptResult ==
  pc = "done" =>
    /\ (op.name \in FrameOps \ {"flattenObj"}) => Unchanged(DOMAIN pre)
    /\ op.name = "flattenObj" =>
         /\ op.result = Undef => Unchanged(DOMAIN pre)
         /\ op.result # Undef =>
              /\ Unchanged(DOMAIN pre \ {op.result.v})
              /\ ret = op.result
    /\ (op.name = "flatten" /\ ~IsArrayVal(pre, root)) => Unchanged(DOMAIN pre)
    /\ (op.name \in {"flatten", "flattenArray"} /\ IsArrayVal(pre, root)) =>
         Unchanged({a \in DOMAIN pre : pre[a].kind = "obj" \/ a \notin Reach(pre, root)})

\* C5 witness: flattenObj has written entries into the caller's result mapping
\* and left the flattened value alone.
C5_Witness ==
  /\ pc = "done" /\ op.name = "flattenObj" /\ op.result # Undef
  /\ IsRef(root) /\ heap[root.v] = pre[root.v]
  /\ Len(heap[op.result.v].keys) > Len(pre[op.result.v].keys)
  /\ Len(pre[op.result.v].keys) > 0

\* the positions of the array root whose elements satisfy the selector of the call
SatisfyingPositions ==
  {i \in DOMAIN pre[root.v].vals : Satisfies(pre, op.sel, pre[root.v].vals[i], i)}

\* C11: over an array, find returns the satisfying element of lowest index and
\* findRight the one of highest index, undefined when no element satisfies the
\* selector; they are the first and the last element of filter's result.
C11_FindFirstFindRightLast ==
  (pc = "done" /\ op.name \in {"find", "findRight"} /\ IsArrayVal(pre, root)) =>
    LET S == SatisfyingPositions
        f == filter(pre, op.sel, root)
        kept == f.h[f.val.v].vals
    IN /\ heap = pre
       /\ S = {} => ret = Undef /\ kept = <<>>
       /\ S # {} =>
            /\ op.name = "find" => ret = pre[root.v].vals[Min(S)] /\ ret = kept[1]
            /\ op.name = "findRight" =>
                 ret = pre[root.v].vals[Max(S)] /\ ret = kept[Len(kept)]

\* C11 witness: two different elements satisfy the selector and findRight has
\* returned the second.
C11_Witness ==
  /\ pc = "done" /\ op.name = "findRight" /\ op.form = "template"
  /\ IsArrayVal(pre, root)
  /\ SatisfyingPositions = {1, 2}
  /\ pre[root.v].vals[1] # pre[root.v].vals[2]
  /\ ret = pre[root.v].vals[2]

\* C12: map leaves its operand as it was and returns a new array: over an array
\* A the i-th entry is fn(A[i], i, A), or A[i][name] for a property name (which
\* fails on a null or undefined element, as the read does); over a mapping M
\* the entries are fn(M[k], k, M) for the keys k of M in their enumeration order.
C12_MapNewSequence ==
  (pc = "done" /\ op.name = "map") =>
    /\ Unchanged(DOMAIN pre)
    /\ IsArrayVal(pre, root) =>
         LET A == pre[root.v].vals
         IN IF op.form = "name" /\ \E i \in DOMAIN A : isNull(A[i])
            THEN ret = Throw
            ELSE /\ IsArrayVal(heap, ret) /\ ret.v \notin DOMAIN pre
                 /\ Len(heap[ret.v].vals) = Len(A)
                 /\ \A i \in DOMAIN A :
                      heap[ret.v].vals[i] =
                        IF op.form = "name" THEN GetProp(pre, A[i], op.sel.s)
                        ELSE FnCall(Undef, op.sel.v, <<A[i], Num(i - 1), root>>)
    /\ (IsObjVal(pre, root) /\ op.form = "fn") =>
         LET K == pre[root.v].keys
         IN /\ IsArrayVal(heap, ret) /\ ret.v \notin DOMAIN pre
            /\ Len(heap[ret.v].vals) = Len(K)
            /\ \A i \in DOMAIN K :
                 heap[ret.v].vals[i] =
                   FnCall(Undef, op.sel.v, <<pre[root.v].vals[i], Str(K[i]), root>>)

\* C12 witness: map over a mapping of two keys has called the iteratee with
\* each key, in the mapping's order.
C12_Witness ==
  /\ pc = "done" /\ op.name = "map" /\ op.sel = Fn(FnKeyIsA)
  /\ IsObjVal(pre, root) /\ pre[root.v].keys = <<KeyA, KeyB>>
  /\ heap[ret.v].vals = <<Bool(TRUE), Bool(FALSE)>>
  /\ heap[root.v] = pre[root.v]

\* C13: every value of flattenObj(O) is a string, a number or a boolean, or
\* null or undefined when keepNull is set; none is an array or an object, and
\* with keepNull false none is null or undefined.
C13_FlatValuesArePrimitive ==
  (pc = "done" /\ op.name = "flattenObj" /\ op.result = Undef) =>
    /\ IsObjVal(heap, ret) /\ ret.v \notin DOMAIN pre
    /\ \A i \in DOMAIN heap[ret.v].vals :
         LET x == heap[ret.v].vals[i]
         IN /\ x.t \in {"str", "num", "bool", "null", "undef"}
            /\ ~op.keepNull => x.t \in {"str", "num", "bool"}

\* C13 witness: flattenObj without keepNull has flattened a value that holds
\* a null leaf and another leaf, and the result has an entry for the other only.
C13_Witness ==
  /\ pc = "done" /\ op.name = "flattenObj" /\ op.result = Undef /\ ~op.keepNull
  /\ IsRef(root)
  /\ \E a \in Reach(pre, root) : Null \in Range(pre[a].vals)
  /\ Len(heap[ret.v].vals) = 1

\* the iteratee of a uniq call, id when the caller gave none
UniqFn == IF op.sel = Undef THEN Fn(id) ELSE op.sel

\* the value uniq derives from the element x
Derived(x) ==
  IF UniqFn.t = "fn" THEN FnCall(Undef, UniqFn.v, <<x>>) ELSE GetProp(pre, x, UniqFn.s)

\* the derived value of the last of items that turns into the key k
LastDerived(items, k) ==
  Derived(items[Max({i \in DOMAIN items : ToKey(pre, items[i]) = k})])

\* C14: uniq returns one entry for every distinct key the elements of arr turn
\* into, and the entry of a key is the value derived from the last element
\* with that key: the results and the keys' derived values are the same bag.
C14_UniqLastWins ==
  (pc = "done" /\ op.name = "uniq" /\ IsIterable(pre, root)) =>
    LET items == Iterate(pre, root)
        Keys == {ToKey(pre, items[i]) : i \in DOMAIN items}
    IN IF UniqFn.t = "str" /\ \E i \in DOMAIN items : isNull(items[i])
       THEN ret = Throw
       ELSE /\ IsArrayVal(heap, ret) /\ ret.v \notin DOMAIN pre
            /\ Len(heap[ret.v].vals) = Cardinality(Keys)
            /\ \A k \in Keys :
                 Cardinality({i \in DOMAIN heap[ret.v].vals :
                                heap[ret.v].vals[i] = LastDerived(items, k)})
                   = Cardinality({k2 \in Keys : LastDerived(items, k2) = LastDerived(items, k)})

\* C14 witness: uniq([1, 1, 2, 3, 3], x => x) has returned 1, 2, 3.
C14_Witness ==
  /\ pc = "done" /\ op.name = "uniq" /\ op.sel = Fn(FnId)
  /\ IsArrayVal(pre, root)
  /\ pre[root.v].vals = <<Num(1), Num(1), Num(2), Num(3), Num(3)>>
  /\ heap[ret.v].vals = <<Num(1), Num(2), Num(3)>>

\* C14 witness of the last write: two rows that turn into the same key have
\* left one entry, derived from the second.
C14_WitnessLast ==
  /\ pc = "done" /\ op.name = "uniq" /\ op.sel = Str(KeyA)
  /\ IsArrayVal(pre, root) /\ Len(pre[root.v].vals) = 2
  /\ IsRef(pre[root.v].vals[1]) /\ IsRef(pre[root.v].vals[2])
  /\ GetProp(pre, pre[root.v].vals[1], KeyA) = Num(0)
  /\ heap[ret.v].vals = <<Num(1)>>

--------------------------------------------------------------------------
(* Collection, src/src/collections.ts:72-123: the methods a subclass inherits
   when it overrides none of them.  The class has no fields. *)

\* what a method call hands back: a value, or a failure of some kind
Returns(x) == [threw |-> FALSE, err |-> "", val |-> x]
Raises(kind) == [threw |-> TRUE, err |-> kind, val |-> Undef]

\* add(item) {}
Collection_add(item) == Returns(Undef)

\* contains(item) { return false }
Collection_contains(item) == Returns(Bool(FALSE))

\* size(): number { throw new NotImplementedError() }
Collection_size == Raises("NotImplementedError")

\* remove(x) {}
Collection_remove(x) == Returns(Undef)

\* pop(i) {}
Collection_pop(i) == Returns(Undef)

\* clear() {}
Collection_clear == Returns(Undef)

\* the call name(arg) with outcome r joins the log
ClCall(name, arg, r) ==
  /\ Len(clLog) < MaxCalls
  /\ clLog' = Append(clLog, [name |-> name, arg |-> arg, threw |-> r.threw,
                             err |-> r.err, val |-> r.val])

ClAdd == \E x \in Elems : ClCall("add", x, Collection_add(x))
ClContains == \E x \in Elems : ClCall("contains", x, Collection_contains(x))
ClSize == ClCall("size", 0, Collection_size)
ClRemove == \E x \in Elems : ClCall("remove", x, Collection_remove(x))
ClPop == \E i \in Elems : ClCall("pop", i, Collection_pop(i))
ClClear == ClCall("clear", 0, Collection_clear)

InitCollection == ClIdle /\ FsInit /\ CollIdle /\ FtIdle

NextCollection ==
  \/ ClAdd /\ UNCHANGED <<collVars, fsVars, ftVars>>
  \/ ClContains /\ UNCHANGED <<collVars, fsVars, ftVars>>
  \/ ClSize /\ UNCHANGED <<collVars, fsVars, ftVars>>
  \/ ClRemove /\ UNCHANGED <<collVars, fsVars, ftVars>>
  \/ ClPop /\ UNCHANGED <<collVars, fsVars, ftVars>>
  \/ ClClear /\ UNCHANGED <<collVars, fsVars, ftVars>>

SpecCollection == InitCollection /\ [][NextCollection]_vars

\* C15: remove(x) on a container that does not hold x fails with a ValueError;
\* the inherited contains answers false for every x, so every remove fails.
C15_RemoveOfAbsentRaises ==
  \A i \in DOMAIN clLog :
    (clLog[i].name = "remove" /\ Collection_contains(clLog[i].arg).val = Bool(FALSE)) =>
      (clLog[i].threw /\ clLog[i].err = "ValueError")

--------------------------------------------------------------------------
(* functools, src/src/functools/index.ts: the wrappers around a caller's func *)

MaxFnCalls == 4    \* calls made on one wrapper

\* the arguments the caller passes to a wrapper
ArgVals == {Num(1), Num(2)}

\* func is the caller's: an invocation returns some value or throws
FuncVals == {Undef, Num(1), Num(2)}
FuncOutcomes == {Returns(v) : v \in FuncVals} \cup {Raises("Error")}

\* func(...args) has run with outcome o; ncalls is the number of calls of the
\* wrapper that had returned by then
Invoked(args, o) ==
  Append(invocations, [at |-> now, ncalls |-> Len(calls), args |-> args,
                       threw |-> o.threw, val |-> o.val])

\* the wrapper was called with args and handed back r
Called(args, r) ==
  Append(calls, [at |-> now, args |-> args, threw |-> r.threw, val |-> r.val])

--------------------------------------------------------------------------
(* once, src/src/functools/index.ts:182-191 *)

\* the function once returns, called while the closure holds called and res;
\* o is the outcome of func should it be invoked
once(called, res, o) ==
  IF ~called
  THEN IF o.threw
       THEN [isCalled |-> called, result |-> res, invoked |-> TRUE, out |-> o]
       ELSE [isCalled |-> TRUE, result |-> o.val, invoked |-> TRUE, out |-> Returns(o.val)]
  ELSE [isCalled |-> called, result |-> res, invoked |-> FALSE, out |-> Returns(res)]

\* single(...args), a failure caught by the caller
OnceCall ==
  /\ Len(calls) < MaxFnCalls
  /\ \E a \in ArgVals, o \in FuncOutcomes :
       LET r == once(isCalled, onceResult, o)
       IN /\ isCalled' = r.isCalled
          /\ onceResult' = r.result
          /\ invocations' = IF r.invoked THEN Invoked(a, o) ELSE invocations
          /\ calls' = Called(a, r.out)
  /\ UNCHANGED <<now, timeouts, nextId, cache, resolver, pending, timer, maxTimer,
                 lastResult, wait, maxWait>>

InitOnce == FtIdle /\ ClIdle /\ FsInit /\ CollIdle

NextOnce == OnceCall /\ UNCHANGED <<collVars, fsVars, clVars>>

SpecOnce == InitOnce /\ [][NextOnce]_vars

\* C16: func is invoked at most once over all the calls of the function once
\* returns, and every call that returns hands back the value of that first
\* invocation.
C16_OnceInvokesOnce ==
  /\ Len(invocations) <= 1
  /\ \A i \in DOMAIN calls :
       ~calls[i].threw => calls[i].val = invocations[1].val

--------------------------------------------------------------------------
(* memoize, src/src/functools/index.ts:85-95 *)

\* the resolvers the caller may give: none, a test of the first argument, a constant
Resolvers == {Undef, Fn(FnIsOne), Fn(FnSeven)}

\* cache.get(key): undefined when the map has no such key
CacheGet(c, key) ==
  IF \E e \in c : e.key = key THEN (CHOOSE e \in c : e.key = key).value ELSE Undef

\* cache.set(key, value)
CacheSet(c, key, value) == {e \in c : e.key # key} \cup {[key |-> key, value |-> value]}

\* const key = resolver ? resolver(...args) : args[0]
KeyOf(rs, args) == IF Truthy(rs) THEN FnCall(Undef, rs.v, args) ELSE Arg(args, 1)

\* the function memoize returns, called with args while the map is c; o is the
\* outcome of func should it be invoked
memoize(c, rs, args, o) ==
  LET key == KeyOf(rs, args)
      prev == CacheGet(c, key)
  IN IF prev # Undef THEN [cache |-> c, invoked |-> FALSE, out |-> Returns(prev)]
     ELSE IF o.threw THEN [cache |-> c, invoked |-> TRUE, out |-> o]
     ELSE [cache |-> CacheSet(c, key, o.val), invoked |-> TRUE, out |-> Returns(o.val)]

\* memoized(a), a failure caught by the caller
MemoCall ==
  /\ Len(calls) < MaxFnCalls
  /\ \E a \in ArgVals, o \in FuncOutcomes :
       LET r == memoize(cache, resolver, <<a>>, o)
       IN /\ cache' = r.cache
          /\ invocations' = IF r.invoked THEN Invoked(<<a>>, o) ELSE invocations
          /\ calls' = Called(<<a>>, r.out)
  /\ UNCHANGED <<now, timeouts, nextId, isCalled, onceResult, resolver, pending, timer,
                 maxTimer, lastResult, wait, maxWait>>

InitMemoize ==
  /\ now = 0 /\ timeouts = {} /\ nextId = 1
  /\ invocations = <<>> /\ calls = <<>>
  /\ isCalled = FALSE /\ onceResult = Undef
  /\ cache = {}
  /\ resolver \in Resolvers
  /\ pending = FALSE /\ timer = 0 /\ maxTimer = 0 /\ lastResult = Undef
  /\ wait = 0 /\ maxWait = 0
  /\ ClIdle /\ FsInit /\ CollIdle

NextMemoize == MemoCall /\ UNCHANGED <<collVars, fsVars, clVars>>

SpecMemoize == InitMemoize /\ [][NextMemoize]_vars

\* C17: func is invoked at most once for each cache key, and a later call with
\* the key of an earlier invocation returns what that invocation returned.
C17_MemoizeOncePerKey ==
  /\ \A i, j \in DOMAIN invocations :
       KeyOf(resolver, invocations[i].args) = KeyOf(resolver, invocations[j].args) => i = j
  /\ \A i \in DOMAIN calls, j \in DOMAIN invocations :
       (KeyOf(resolver, calls[i].args) = KeyOf(resolver, invocations[j].args)
          /\ ~calls[i].threw /\ ~invocations[j].threw) =>
         calls[i].val = invocations[j].val

--------------------------------------------------------------------------
(* The host's timers: setTimeout, clearTimeout and the clock.  A timeout's
   callback runs when the clock reaches its due time: the clock does not move
   on, and no call is made, while a timeout is due.  Timeouts due at the same
   moment run in either order. *)

MaxTime == 5       \* the clock stops here
MaxWait == 2       \* the largest wait given to throttle and debounce
MaxTimedCalls == 3 \* calls made on one throttled or debounced function

\* setTimeout(cb, delay) returns nextId and holds the timeout until it is due
setTimeout(ts, tid, cb, args, delay) ==
  ts \cup {[id |-> tid, due |-> now + delay, cb |-> cb, args |-> args]}

\* clearTimeout(id); an id the host does not hold, 0 included, clears nothing
clearTimeout(ts, tid) == {to \in ts : to.id # tid}

Due == {to \in timeouts : to.due <= now}

\* a millisecond passes
Tick ==
  /\ now < MaxTime
  /\ Due = {}
  /\ now' = now + 1
  /\ UNCHANGED <<timeouts, nextId, invocations, calls, isCalled, onceResult, cache,
                 resolver, pending, timer, maxTimer, lastResult, wait, maxWait>>

\* the outcomes of func in the timed wrappers
TimedOutcomes == {Returns(Num(1)), Raises("Error")}

--------------------------------------------------------------------------
(* throttle, src/src/functools/index.ts:154-164 *)

\* throttled(a): nothing happens while pending; otherwise func runs, and when
\* it has returned pending is set and a timeout of wait is started
ThrottleCall ==
  /\ Len(calls) < MaxTimedCalls
  /\ Due = {}
  /\ \E a \in ArgVals, o \in TimedOutcomes :
       IF pending
       THEN /\ calls' = Called(<<a>>, Returns(Undef))
            /\ UNCHANGED <<invocations, pending, timeouts, nextId>>
       ELSE /\ invocations' = Invoked(<<a>>, o)
            /\ IF o.threw
               THEN /\ calls' = Called(<<a>>, o)
                    /\ UNCHANGED <<pending, timeouts, nextId>>
               ELSE /\ calls' = Called(<<a>>, Returns(Undef))
                    /\ pending' = TRUE
                    /\ timeouts' = setTimeout(timeouts, nextId, "throttle", <<>>, wait)
                    /\ nextId' = nextId + 1
  /\ UNCHANGED <<now, isCalled, onceResult, cache, resolver, timer, maxTimer, lastResult,
                 wait, maxWait>>

\* () => { pending = false }
ThrottleExpire ==
  /\ \E to \in Due :
       /\ to.cb = "throttle"
       /\ timeouts' = timeouts \ {to}
       /\ pending' = FALSE
  /\ UNCHANGED <<now, nextId, invocations, calls, isCalled, onceResult, cache, resolver,
                 timer, maxTimer, lastResult, wait, maxWait>>

InitThrottle ==
  /\ now = 0 /\ timeouts = {} /\ nextId = 1
  /\ invocations = <<>> /\ calls = <<>>
  /\ isCalled = FALSE /\ onceResult = Undef
  /\ cache = {} /\ resolver = Undef
  /\ pending = FALSE /\ timer = 0 /\ maxTimer = 0 /\ lastResult = Undef
  /\ wait \in 0..MaxWait /\ maxWait = 0
  /\ ClIdle /\ FsInit /\ CollIdle

NextThrottle ==
  \/ ThrottleCall /\ UNCHANGED <<collVars, fsVars, clVars>>
  \/ ThrottleExpire /\ UNCHANGED <<collVars, fsVars, clVars>>
  \/ Tick /\ UNCHANGED <<collVars, fsVars, clVars>>

SpecThrottle == InitThrottle /\ [][NextThrottle]_vars

\* C18: at least wait milliseconds lie between any two invocations of func by
\* the throttled function.
C18_ThrottleSpacing ==
  \A i, j \in DOMAIN invocations :
    i < j => invocations[j].at - invocations[i].at >= wait

--------------------------------------------------------------------------
(* debounce, src/src/functools/index.ts:121-145 *)

MaxMaxWait == 3    \* the largest maxWait given to debounce

\* a debounced call that leaves the running timer in place
debounce_keepsTimer(ts, tm, mtm, nid, w, mw, args) ==
  LET ts2 == setTimeout(ts, nid, "timer", args, w)
  IN IF mw # 0 /\ mtm = 0
     THEN [timeouts |-> setTimeout(ts2, nid + 1, "maxTimer", args, mw),
           timer |-> nid, maxTimer |-> nid + 1, nextId |-> nid + 2]
     ELSE [timeouts |-> ts2, timer |-> nid, maxTimer |-> mtm, nextId |-> nid + 1]

\* the function debounce returns, called with args while the closure holds the
\* timeout ids tm and mtm, the host holds ts and hands out nid next: the
\* running timer is cleared, a new one is started, and a maxTimer is started
\* when maxWait is given and none is running
debounce(ts, tm, mtm, nid, w, mw, args) ==
  LET ts1 == IF tm # 0 THEN clearTimeout(ts, tm) ELSE ts
      ts2 == setTimeout(ts1, nid, "timer", args, w)
  IN IF mw # 0 /\ mtm = 0
     THEN [timeouts |-> setTimeout(ts2, nid + 1, "maxTimer", args, mw),
           timer |-> nid, maxTimer |-> nid + 1, nextId |-> nid + 2]
     ELSE [timeouts |-> ts2, timer |-> nid, maxTimer |-> mtm, nextId |-> nid + 1]

\* clearTimeout(maxTimer) in the callback of timer
timerCallback(ts, mtm) == clearTimeout(ts, mtm)

\* a callback of maxTimer that leaves the timer running
maxTimerCallback_keepsTimer(ts, tm) == ts

\* clearTimeout(timer) in the callback of maxTimer
maxTimerCallback(ts, tm) == clearTimeout(ts, tm)

\* debounced(a): returns lastResult
DebounceCall ==
  /\ Len(calls) < MaxTimedCalls
  /\ Due = {}
  /\ \E a \in ArgVals :
       LET r == debounce(timeouts, timer, maxTimer, nextId, wait, maxWait, <<a>>)
       IN /\ timeouts' = r.timeouts
          /\ timer' = r.timer
          /\ maxTimer' = r.maxTimer
          /\ nextId' = r.nextId
          /\ calls' = Called(<<a>>, Returns(lastResult))
  /\ UNCHANGED <<now, invocations, isCalled, onceResult, cache, resolver, pending,
                 lastResult, wait, maxWait>>

\* the callback of timer: clearTimeout(maxTimer); maxTimer = null; lastResult = func(...args)
DebounceTimer ==
  /\ \E to \in Due, o \in TimedOutcomes :
       /\ to.cb = "timer"
       /\ timeouts' = timerCallback(timeouts \ {to}, maxTimer)
       /\ maxTimer' = 0
       /\ invocations' = Invoked(to.args, o)
       /\ lastResult' = IF o.threw THEN lastResult ELSE o.val
  /\ UNCHANGED <<now, nextId, calls, isCalled, onceResult, cache, resolver, pending,
                 timer, wait, maxWait>>

\* the callback of maxTimer: clearTimeout(timer); maxTimer = null; lastResult = func(...args)
DebounceMaxTimer ==
  /\ \E to \in Due, o \in TimedOutcomes :
       /\ to.cb = "maxTimer"
       /\ timeouts' = maxTimerCallback(timeouts \ {to}, timer)
       /\ maxTimer' = 0
       /\ invocations' = Invoked(to.args, o)
       /\ lastResult' = IF o.threw THEN lastResult ELSE o.val
  /\ UNCHANGED <<now, nextId, calls, isCalled, onceResult, cache, resolver, pending,
                 timer, wait, maxWait>>

InitDebounce ==
  /\ now = 0 /\ timeouts = {} /\ nextId = 1
  /\ invocations = <<>> /\ calls = <<>>
  /\ isCalled = FALSE /\ onceResult = Undef
  /\ cache = {} /\ resolver = Undef
  /\ pending = FALSE /\ timer = 0 /\ maxTimer = 0 /\ lastResult = Undef
  /\ wait \in 0..MaxWait /\ maxWait \in 0..MaxMaxWait
  /\ ClIdle /\ FsInit /\ CollIdle

NextDebounce ==
  \/ DebounceCall /\ UNCHANGED <<collVars, fsVars, clVars>>
  \/ DebounceTimer /\ UNCHANGED <<collVars, fsVars, clVars>>
  \/ DebounceMaxTimer /\ UNCHANGED <<collVars, fsVars, clVars>>
  \/ Tick /\ UNCHANGED <<collVars, fsVars, clVars>>

SpecDebounce == InitDebounce /\ [][NextDebounce]_vars

\* the invocations of func made after the i-th call and before the next one
ServedBy(i) == {j \in DOMAIN invocations : invocations[j].ncalls = i}

\* the i-th call ends a burst: no call follows it within wait
EndsBurst(i) == i = Len(calls) \/ calls[i + 1].at >= calls[i].at + wait

\* C19: without maxWait, func is never invoked before wait milliseconds have
\* passed since the most recent call, and a burst of calls less than wait apart
\* is followed by exactly one invocation, wait after its last call and with
\* that call's arguments; a call followed by another within wait invokes nothing.
C19_DebounceAfterWait ==
  maxWait = 0 =>
    /\ \A j \in DOMAIN invocations :
         /\ invocations[j].ncalls >= 1
         /\ invocations[j].at - calls[invocations[j].ncalls].at >= wait
    /\ \A i \in DOMAIN calls :
         /\ Cardinality(ServedBy(i)) <= 1
         /\ \A j \in ServedBy(i) :
              /\ invocations[j].at = calls[i].at + wait
              /\ invocations[j].args = calls[i].args
         /\ ~EndsBurst(i) => ServedBy(i) = {}
         /\ (EndsBurst(i) /\ (i < Len(calls) \/ now > calls[i].at + wait)) =>
              ServedBy(i) # {}

\* C19 witness: a burst of two calls less than wait apart has been followed by
\* one invocation of func, wait after the second call.
C19_Witness ==
  /\ maxWait = 0 /\ wait = 2
  /\ Len(calls) = 2 /\ calls[2].at = calls[1].at + 1
  /\ Len(invocations) = 1
  /\ invocations[1].at = calls[2].at + wait
  /\ now > invocations[1].at

\* the i-th call is the first one not yet followed by an invocation
OpensBurst(i) == i = 1 \/ ServedBy(i - 1) # {}

\* C20: with maxWait, func is invoked no later than maxWait milliseconds after
\* the first call not yet followed by an invocation, however many calls follow
\* it, and no two invocations serve the same burst: a call lies between any
\* two invocations.
C20_DebounceMaxWait ==
  maxWait # 0 =>
    /\ \A i \in DOMAIN calls :
         (OpensBurst(i) /\ now > calls[i].at + maxWait) =>
           \E j \in DOMAIN invocations :
             /\ invocations[j].ncalls >= i
             /\ invocations[j].at <= calls[i].at + maxWait
    /\ \A j \in DOMAIN invocations : invocations[j].ncalls >= 1
    /\ \A j, k \in DOMAIN invocations :
         j # k => invocations[j].ncalls # invocations[k].ncalls

\* C20 witness: calls kept coming less than wait apart, and func was invoked by
\* the maxTimer, maxWait after the first call, while the timer was cleared.
C20_Witness ==
  /\ maxWait = 3 /\ wait = 2
  /\ Len(calls) = 3 /\ calls[1].at = 0 /\ calls[2].at = 1 /\ calls[3].at = 2
  /\ Len(invocations) = 1
  /\ invocations[1].at = 3
  /\ now = 5 /\ timeouts = {}

--------------------------------------------------------------------------
(* flow, compose: src/src/functools/index.ts:54-76 *)

MaxFns == 3        \* functions given to flow and compose

\* the functions the caller composes, and the values the composition is applied to
UnaryFns == {Fn(FnInc), Fn(FnDbl), Fn(FnId)}
FlowArgs == {Num(0), Num(1), Num(3)}

\* fn(x): calling a value that is not a function throws a TypeError
CallValue(fn, x) == IF fn.t = "fn" THEN FnCall(Undef, fn.v, <<x>>) ELSE Throw

\* for (const fn of args) { x = fn(x) } from the j-th of args on; return x
RECURSIVE flowLoop(_, _, _)
flowLoop(args, x, j) ==
  IF j > Len(args) THEN x
  ELSE LET y == CallValue(args[j], x)
       IN IF y = Throw THEN Throw ELSE flowLoop(args, y, j + 1)

\* flow(...args)(x): args is the rest-parameter array of the call of flow
flow(args, x) == flowLoop(args, x, 1)

\* args.reverse(): the array reversed in place, and returned
reverse(q) == [i \in DOMAIN q |-> q[Len(q) + 1 - i]]

\* compose(...args)(x): flow is called with one argument, the reversed array
\* itself, which is laid on the heap
compose(h, args, x) ==
  LET h1 == Append(h, ArrOf(reverse(args)))
  IN [h |-> h1, val |-> flow(<<Ref(Len(h1))>>, x)]

\* flow(...fs)(x)
DoFlow ==
  /\ pc = "ready"
  /\ \E fs \in SeqsUpTo(UnaryFns, MaxFns), x \in FlowArgs :
       /\ op' = [name |-> "flow", fns |-> fs, x |-> x]
       /\ Return(heap, [h |-> heap, val |-> flow(fs, x)])

\* compose(...fs)(x)
DoCompose ==
  /\ pc = "ready"
  /\ \E fs \in SeqsUpTo(UnaryFns, MaxFns), x \in FlowArgs :
       /\ op' = [name |-> "compose", fns |-> fs, x |-> x]
       /\ Return(heap, compose(heap, fs, x))

InitCompose ==
  /\ heap = <<>> /\ root = Undef /\ pc = "ready"
  /\ op = [name |-> "none"] /\ ret = Undef /\ pre = <<>> /\ stack = <<>>
  /\ FsInit /\ ClIdle /\ FtIdle

NextCompose ==
  \/ DoFlow /\ UNCHANGED <<fsVars, clVars, ftVars>>
  \/ DoCompose /\ UNCHANGED <<fsVars, clVars, ftVars>>

SpecCompose == InitCompose /\ [][NextCompose]_vars

\* fs[n](...(fs[1](x))): the functions applied from the first to the last
RECURSIVE LeftToRight(_, _)
LeftToRight(fs, x) ==
  IF fs = <<>> THEN x ELSE LeftToRight(Tail(fs), FnCall(Undef, Head(fs).v, <<x>>))

\* C21: compose(f1, ..., fn)(x) = f1(...(fn(x))), the functions applied from
\* the last to the first, and flow(f1, ..., fn)(x) = fn(...(f1(x))).
C21_ComposeRightToLeft ==
  pc = "done" =>
    /\ op.name = "flow" => ret = LeftToRight(op.fns, op.x)
    /\ op.name = "compose" => ret = LeftToRight(reverse(op.fns), op.x)

--------------------------------------------------------------------------
(* hash, hashCode, uniqueId: src/src/globals/index.ts:234-236, 367-404 *)

MaxUid == 3        \* uniqueId() answers a number of 1..MaxUid

\* HASH_KEY = Symbol.for('HASH_KEY'): a symbol, used as a property key as it is
HASH_KEY == [t |-> "sym", v |-> 0, s |-> <<"@@HASH_KEY">>]

\* uniqueId(): 0 + ((Math.random() * 1e10) >>> 0), some number
UniqueIds == {Num(n) : n \in 1..MaxUid}

\* a 32-bit number is kept as two halves of 16 bits, hi and lo
Half == 65536
FNV1_32A_INIT == [hi |-> 33052, lo |-> 40389]        \* 0x811c9dc5

\* a ^ b on numbers of n bits
RECURSIVE Xor(_, _, _)
Xor(a, b, n) ==
  IF n = 0 THEN 0 ELSE 2 * Xor(a \div 2, b \div 2, n - 1) + ((a + b) % 2)

\* str.charCodeAt(i) for the characters of the model's strings
CharCode(c) ==
  CASE c = "a" -> 97 [] c = "b" -> 98 [] c = "h" -> 104 [] c = "i" -> 105 [] OTHER -> 63

\* hval ^= code; hval += (hval << 1) + (hval << 4) + (hval << 7) + (hval << 8) + (hval << 24),
\* kept to 32 bits: the sum is hval * (2^24 + 403)
FnvStep(hval, code) ==
  LET lo == Xor(hval.lo, code, 16)
      hi == hval.hi
  IN [hi |-> (hi * 403 + ((lo * 403) \div Half) + (lo % 256) * 256) % Half,
      lo |-> (lo * 403) % Half]

\* hashCode(str): the loop over the characters from the i-th on; hval >>> 0
RECURSIVE hashLoop(_, _, _)
hashLoop(cs, hval, i) ==
  IF i > Len(cs) THEN hval ELSE hashLoop(cs, FnvStep(hval, CharCode(cs[i])), i + 1)

\* the number hashCode returns, as a value: the high half is kept in s
hashCode(cs) ==
  LET hval == hashLoop(cs, FNV1_32A_INIT, 1)
  IN [t |-> "num", v |-> hval.lo, s |-> <<hval.hi>>]

\* hash(obj); uid is what uniqueId() answers should it be called
hash(h, obj, uid) ==
  IF obj.t = "str" THEN [h |-> h, val |-> hashCode(obj.s)]
  ELSE IF obj.t \in {"ref", "null"}
  THEN IF isNull(get(h, HASH_KEY, obj, Undef))
       THEN [h |-> h, val |-> Member(h, obj, ToKey(h, HASH_KEY))]
       ELSE [h |-> [h EXCEPT ![obj.v] = PutOwn(@, ToKey(h, HASH_KEY), uid)], val |-> uid]
  ELSE [h |-> h, val |-> obj]

\* the values the caller hashes: plain objects, objects that carry a HASH_KEY
\* property already, null, scalars and strings
HashInputs ==
  { ObjT(<<>>, <<>>), ObjT(<<KeyA>>, <<Leaf(Num(1))>>), ArrT(<<Leaf(Num(1))>>),
    ObjT(<<HASH_KEY.s>>, <<Leaf(Num(1))>>), ObjT(<<KeyA, HASH_KEY.s>>, <<Leaf(Num(0)), Leaf(Num(0))>>),
    ObjT(<<HASH_KEY.s>>, <<Leaf(Null)>>),
    Leaf(Null), Leaf(Undef), Leaf(Num(1)), Leaf(Bool(TRUE)),
    Leaf(Str(<<>>)), Leaf(Str(<<"a">>)), Leaf(Str(<<"h", "i">>)) }

InitHash ==
  /\ \E tr \in HashInputs :
       LET r == AllocTree(<<>>, tr)
       IN heap = r.h /\ root = r.val
  /\ pc = "ready"
  /\ op = [name |-> "none"]
  /\ ret = Undef
  /\ pre = <<>>
  /\ stack = <<>>
  /\ FsInit /\ ClIdle /\ FtIdle

\* hash(root), a failure caught by the caller
DoHash ==
  /\ Len(calls) < MaxFnCalls
  /\ \E uid \in UniqueIds :
       LET r == hash(heap, root, uid)
       IN /\ Return(heap, r)
          /\ op' = [name |-> "hash"]
          /\ calls' = Append(calls, [at |-> now, args |-> <<root>>,
                                     threw |-> r.val = Throw, val |-> r.val])
  /\ UNCHANGED <<now, timeouts, nextId, invocations, isCalled, onceResult, cache,
                 resolver, pending, timer, maxTimer, lastResult, wait, maxWait>>

NextHash == DoHash /\ UNCHANGED <<fsVars, clVars>>

SpecHash == InitHash /\ [][NextHash]_vars

\* C22: every call of hash on an object returns the same value as the first
\* call, and that value is neither null nor undefined.
C22_HashStable ==
  IsRef(root) =>
    \A i \in DOMAIN calls :
      /\ ~calls[i].threw
      /\ ~isNull(calls[i].val)
      /\ calls[i].val = calls[1].val

--------------------------------------------------------------------------
(* index, the generic fallback: src/src/collections.ts:386-397 *)

\* neither call('indexOf', obj, x) nor call('index', obj, x) gave a result
InFallback(h, obj, x) ==
  /\ isNull(call(h, Str(KeyIndexOf), obj, <<x>>))
  /\ isNull(call(h, Str(KeyIndex), obj, <<x>>))

\* obj.length when it is a number, 0 otherwise
LengthNum(h, obj) ==
  LET length == LengthOf(h, obj) IN IF length.t = "num" THEN length.v ELSE 0

\* start as the fallback normalizes it
NormStart(start, length) ==
  IF start >= 0 THEN start ELSE IF start + length > 0 THEN start + length ELSE 0

\* the positions at or after from where obj holds a value equal to x
EqPositions(h, obj, x, from) ==
  {i \in from..(LengthNum(h, obj) - 1) : eq(x, Member(h, obj, IntToKey(i)))}

\* C23: in the generic fallback index(obj, x, start) normalizes start and
\* returns, for a string, the native search result from start and, for any
\* other operand, the lowest position at or after start holding a value
\* equal to x, -1 when there is none.
C23_IndexGenericFallback ==
  (pc = "done" /\ op.name = "index" /\ ret # Throw /\ InFallback(pre, root, op.x)) =>
    LET from == NormStart(op.start, LengthNum(pre, root))
        at == EqPositions(pre, root, op.x, from)
    IN IF isString(pre, root)
       THEN ret = Num(StrIndexOf(root.s, ToKey(pre, op.x), from))
       ELSE ret = (IF at = {} THEN Num(-1)
                   ELSE Num(CHOOSE i \in at : \A j \in at : i <= j))

--------------------------------------------------------------------------
(* flattenObj, the keys of the result: src/src/collections.ts:306-329 *)

\* the paths from o down to the values that are no containers; a step is the
\* container's own key and whether the container is an array
RECURSIVE LeafPaths(_, _)
LeafPaths(h, o) ==
  IF ~IsRef(o) THEN {<<>>}
  ELSE UNION {{<<[arr |-> h[o.v].kind = "arr", k |-> k]>> \o p :
                 p \in LeafPaths(h, GetOwn(h[o.v], k))} : k \in Range(OwnKeys(h[o.v]))}

\* the value a path leads to
RECURSIVE ValueAt(_, _, _)
ValueAt(h, o, p) ==
  IF p = <<>> THEN o ELSE ValueAt(h, GetOwn(h[o.v], Head(p).k), Tail(p))

\* the key that encodes a path: "[i]" for a position of an array, ".k" for a
\* key of a mapping, the bare k when the path so far is empty
RECURSIVE PathKey(_, _)
PathKey(sofar, p) ==
  IF p = <<>> THEN sofar
  ELSE PathKey(IF Head(p).arr THEN sofar \o <<"[">> \o Head(p).k \o <<"]">>
               ELSE IF sofar = <<>> THEN Head(p).k
               ELSE sofar \o <<".">> \o Head(p).k,
               Tail(p))

\* the paths of o that lead to a scalar leaf flattenObj writes
ScalarPaths(h, o, keepNull) ==
  {p \in LeafPaths(h, o) :
     LET x == ValueAt(h, o, p)
     IN x.t \in {"str", "num", "bool"} \/ (keepNull /\ isNull(x))}

\* C24: flattenObj writes each scalar leaf under the key that encodes its
\* path from the prefix, and writes no other key.
C24_FlattenObjPathKeys ==
  (pc = "done" /\ op.name = "flattenObj") =>
    LET ps == ScalarPaths(pre, root, op.keepNull)
        before == IF op.result = Undef THEN {} ELSE Range(pre[op.result.v].keys)
        out == heap[ret.v]
    IN /\ \A p \in ps : GetOwn(out, PathKey(op.prefix, p)) = ValueAt(pre, root, p)
       /\ \A p \in ps : PathKey(op.prefix, p) \in Range(out.keys)
       /\ Range(out.keys) = before \cup {PathKey(op.prefix, p) : p \in ps}

\* flattenObj({a: {b: [1, 2]}}) has returned {"a.b[0]": 1, "a.b[1]": 2}
C24_Witness ==
  /\ pc = "done" /\ op.name = "flattenObj" /\ op.result = Undef /\ op.prefix = <<>>
  /\ IsRef(root) /\ pre[root.v].keys = <<KeyA>>
  /\ heap[ret.v].keys = << <<"a", ".", "b", "[", "0", "]">>, <<"a", ".", "b", "[", "1", "]">> >>
  /\ heap[ret.v].vals = <<Num(1), Num(2)>>

--------------------------------------------------------------------------
(* flatten and flattenArray step by step: SpecFlattenSteps
   src/src/collections.ts:287-304 *)

\* a loop whose i++ leaves i as it is
nextIndex_stays(i) == i

\* i++
nextIndex(i) == i + 1

\* the call in progress, and the frame of a call of flattenArray(arr, depth)
\* with a truthy depth as its loop starts
Top == stack[Len(stack)]
Frame(arr, depth) == [arr |-> arr, depth |-> depth, i |-> 0]

\* the caller calls flatten(root, depth) or flattenArray(root, depth) on an
\* array: a falsy depth returns root at once, else the loop over root starts
FlattenEnter ==
  /\ pc = "ready"
  /\ IsArrayVal(heap, root)
  /\ \E d \in Depths, name \in {"flatten", "flattenArray"} :
       /\ op' = [name |-> name, depth |-> d]
       /\ IF DepthFalsy(d)
          THEN pc' = "done" /\ ret' = root /\ stack' = <<>>
          ELSE pc' = "loop" /\ ret' = ret /\ stack' = <<Frame(root, d)>>
  /\ pre' = heap
  /\ UNCHANGED <<heap, root>>

\* the body of the loop at an element that is no array: i++ and nothing else
FlattenSkip ==
  /\ pc = "loop"
  /\ Top.i < Len(heap[Top.arr.v].vals)
  /\ ~IsArrayVal(heap, heap[Top.arr.v].vals[Top.i + 1])
  /\ stack' = [stack EXCEPT ![Len(stack)].i = nextIndex(@)]
  /\ UNCHANGED <<heap, root, pc, op, ret, pre>>

\* the body of the loop at an array when depth - 1 is falsy: flatten returns
\* value as it is, its elements are spliced in, i++
FlattenSplice ==
  /\ pc = "loop"
  /\ Top.i < Len(heap[Top.arr.v].vals)
  /\ LET value == heap[Top.arr.v].vals[Top.i + 1]
     IN /\ IsArrayVal(heap, value)
        /\ DepthFalsy(DepthMinus1(Top.depth))
        /\ heap' = [heap EXCEPT ![Top.arr.v].vals = splice1(@, Top.i, heap[value.v].vals)]
  /\ stack' = [stack EXCEPT ![Len(stack)].i = nextIndex(@)]
  /\ UNCHANGED <<root, pc, op, ret, pre>>

\* the body of the loop at an array otherwise: flatten(value, depth - 1)
\* calls flattenArray, whose loop starts
FlattenCall ==
  /\ pc = "loop"
  /\ Top.i < Len(heap[Top.arr.v].vals)
  /\ LET value == heap[Top.arr.v].vals[Top.i + 1]
     IN /\ IsArrayVal(heap, value)
        /\ ~DepthFalsy(DepthMinus1(Top.depth))
        /\ stack' = Append(stack, Frame(value, DepthMinus1(Top.depth)))
  /\ UNCHANGED <<heap, root, pc, op, ret, pre>>

\* the loop of the call in progress has ended and the call returns its array:
\* to the caller, or to the loop that called it, which splices and does i++
FlattenReturn ==
  /\ pc = "loop"
  /\ ~(Top.i < Len(heap[Top.arr.v].vals))
  /\ IF Len(stack) = 1
     THEN /\ pc' = "done"
          /\ ret' = Top.arr
          /\ stack' = <<>>
          /\ heap' = heap
     ELSE LET g == stack[Len(stack) - 1]
          IN /\ heap' = [heap EXCEPT ![g.arr.v].vals = splice1(@, g.i, heap[Top.arr.v].vals)]
             /\ stack' = [SubSeq(stack, 1, Len(stack) - 1) EXCEPT ![Len(stack) - 1].i = nextIndex(@)]
             /\ UNCHANGED <<pc, ret>>
  /\ UNCHANGED <<root, op, pre>>

NextFlattenSteps ==
  \/ FlattenEnter /\ UNCHANGED <<fsVars, clVars, ftVars>>
  \/ FlattenSkip /\ UNCHANGED <<fsVars, clVars, ftVars>>
  \/ FlattenSplice /\ UNCHANGED <<fsVars, clVars, ftVars>>
  \/ FlattenCall /\ UNCHANGED <<fsVars, clVars, ftVars>>
  \/ FlattenReturn /\ UNCHANGED <<fsVars, clVars, ftVars>>

\* a call once made runs on: the program is sequential
SpecFlattenSteps == InitFlatten /\ [][NextFlattenSteps]_vars /\ WF_vars(NextFlattenSteps)

\* the steps end in the heap and the result the call as a whole computes
StepsAgreeWithCall ==
  pc = "done" => [h |-> heap, val |-> ret] = flattenArray(pre, root, op.depth)

\* C25: flatten and flattenArray return for every nested array and every
\* depth, although the loop splices elements into the array it scans.
C25_FlattenTerminates == <>(pc = "done")

\* a call with depth true has returned after splicing elements into its argument
C25_Witness ==
  /\ pc = "done" /\ op.name = "flattenArray" /\ op.depth = DepthTrue
  /\ Len(heap[root.v].vals) > Len(pre[root.v].vals)

--------------------------------------------------------------------------
(* flattenArray, the elements it keeps: src/src/collections.ts:294-304 *)

\* the elements that are no arrays, read depth-first from left to right
RECURSIVE LeavesOf(_, _), LeavesOfSeq(_, _)
LeavesOf(h, x) == IF IsArrayVal(h, x) THEN LeavesOfSeq(h, h[x.v].vals) ELSE <<x>>
LeavesOfSeq(h, q) == IF q = <<>> THEN <<>> ELSE LeavesOf(h, Head(q)) \o LeavesOfSeq(h, Tail(q))

\* C26: the non-array elements of the result of flattenArray, read
\* depth-first, are those of its argument, in the same order, none lost and
\* none twice.
C26_FlattenKeepsLeaves ==
  (pc = "done" /\ op.name \in {"flatten", "flattenArray"}) =>
    LeavesOf(heap, ret) = LeavesOf(pre, root)

\* flattenArray has returned after splicing the elements of a nested array
\* into an argument with two or more non-array elements, an array still left
C26_Witness ==
  /\ pc = "done" /\ op.name = "flattenArray"
  /\ Len(LeavesOf(pre, root)) >= 2
  /\ heap[root.v].vals # pre[root.v].vals
  /\ \E i \in DOMAIN heap[root.v].vals : IsArrayVal(heap, heap[root.v].vals[i])

====
